---- MODULE Spec2Model ----
(***************************************************************************)
(* A model of the core of the vmc repository:                              *)
(*   - CeperleyMatrix (src/vmc-core/CeperleyMatrix.hpp), the incremental   *)
(*     determinant engine, over exact rational arithmetic;                 *)
(*   - SwappedSystem (src/vmc-core/SwappedSystem.cpp), the two-copy        *)
(*     subsystem bookkeeping.                                              *)
(*                                                                         *)
(* Conventions.  Indices of rows, columns, particles and list slots are    *)
(* 1-based here and 0-based in the C++ source.  A scalar of type T is an   *)
(* exact rational <<n, d>> in lowest terms with d > 0.  A matrix is a      *)
(* sequence of rows.                                                       *)
(***************************************************************************)
EXTENDS Integers, Sequences, FiniteSets, TLC

----------------------------------------------------------------------------
(* Bounds of the model *)

\* the engine's matrix is MatSize x MatSize
MatSize == 2
\* the entries of the matrix an engine is constructed from are 0..MaxVal
MaxVal == 2

----------------------------------------------------------------------------
(* Exact rational scalars *)

AbsInt(x) == IF x < 0 THEN -x ELSE x

RECURSIVE GCD(_, _)
GCD(a, b) == IF b = 0 THEN a ELSE GCD(b, a % b)

Norm(n, d) ==
    LET g == GCD(AbsInt(n), AbsInt(d))
        s == IF d < 0 THEN -1 ELSE 1
    IN  <<(s * n) \div g, (s * d) \div g>>

Rat(n) == <<n, 1>>
Zero == <<0, 1>>
One == <<1, 1>>

\* the common factors are taken out before multiplying, to keep the products
\* small
RAdd(a, b) ==
    LET g == GCD(a[2], b[2])
    IN  Norm(a[1] * (b[2] \div g) + b[1] * (a[2] \div g), (a[2] \div g) * b[2])
RNeg(a) == <<-a[1], a[2]>>
RSub(a, b) == RAdd(a, RNeg(b))
RMul(a, b) ==
    LET g1 == GCD(AbsInt(a[1]), b[2])
        g2 == GCD(AbsInt(b[1]), a[2])
    IN  Norm((a[1] \div g1) * (b[1] \div g2), (a[2] \div g2) * (b[2] \div g1))
\* division by zero is an evaluation error (b[1] = 0 makes Norm divide by 0)
RDiv(a, b) ==
    LET g1 == GCD(AbsInt(a[1]), AbsInt(b[1]))
        g2 == GCD(a[2], b[2])
    IN  Norm((a[1] \div g1) * (b[2] \div g2), (a[2] \div g2) * (b[1] \div g1))
RAbs(a) == <<AbsInt(a[1]), a[2]>>

RECURSIVE SumSeq(_)
SumSeq(s) == IF Len(s) = 0 THEN Zero ELSE RAdd(Head(s), SumSeq(Tail(s)))

\* |x| * 10^k < 1 for a rational x = n/d >= 0, without leaving small integers
RECURSIVE LessThanPow10(_, _, _)
LessThanPow10(n, d, k) ==
    IF n = 0 THEN TRUE
    ELSE IF n >= d THEN FALSE
    ELSE IF k = 0 THEN TRUE
    ELSE LessThanPow10(n * 10, d, k - 1)

\* |x| < 10^(-k), k >= 0
AbsBelowPow10Neg(x, k) == LessThanPow10(AbsInt(x[1]), x[2], k)
\* |x| > 10^k, k >= 0   (|x| > 10^k  <=>  d * 10^k < |n|)
AbsAbovePow10(x, k) == x[1] # 0 /\ LessThanPow10(x[2], AbsInt(x[1]), k)

----------------------------------------------------------------------------
(* Dense matrices (Eigen::Matrix<T, Dynamic, Dynamic>) *)

NRows(m) == Len(m)
NCols(m) == IF Len(m) = 0 THEN 0 ELSE Len(m[1])

Row(m, i) == m[i]
Col(m, j) == [i \in 1..NRows(m) |-> m[i][j]]

SetRow(m, i, v) == [m EXCEPT ![i] = v]
SetCol(m, j, v) == [i \in 1..NRows(m) |-> [m[i] EXCEPT ![j] = v[i]]]

VDot(u, v) == SumSeq([i \in 1..Len(u) |-> RMul(u[i], v[i])])
VAdd(u, v) == [i \in 1..Len(u) |-> RAdd(u[i], v[i])]
VSub(u, v) == [i \in 1..Len(u) |-> RSub(u[i], v[i])]
VScale(u, c) == [i \in 1..Len(u) |-> RMul(u[i], c)]
VDivide(u, c) == [i \in 1..Len(u) |-> RDiv(u[i], c)]

\* row vector times matrix, matrix times column vector
VecMat(u, m) == [j \in 1..NCols(m) |-> VDot(u, Col(m, j))]
MatVec(m, v) == [i \in 1..NRows(m) |-> VDot(m[i], v)]
\* column vector times row vector
Outer(c, r) == [i \in 1..Len(c) |-> [j \in 1..Len(r) |-> RMul(c[i], r[j])]]

MAdd(a, b) == [i \in 1..NRows(a) |-> VAdd(a[i], b[i])]
MSub(a, b) == [i \in 1..NRows(a) |-> VSub(a[i], b[i])]
MatMul(a, b) == [i \in 1..NRows(a) |-> VecMat(a[i], b)]
ZeroMat(n, k) == [i \in 1..n |-> [j \in 1..k |-> Zero]]
Identity(n) == [i \in 1..n |-> [j \in 1..n |-> IF i = j THEN One ELSE Zero]]

SwapRows(m, i, j) == [m EXCEPT ![i] = m[j], ![j] = m[i]]
SwapCols(m, i, j) ==
    [r \in 1..NRows(m) |-> [m[r] EXCEPT ![i] = m[r][j], ![j] = m[r][i]]]

\* the matrix without row i and column j
DropAt(s, k) == [x \in 1..(Len(s) - 1) |-> IF x < k THEN s[x] ELSE s[x + 1]]
Minor(m, i, j) == [r \in 1..(NRows(m) - 1) |-> DropAt(DropAt(m, i)[r], j)]

RECURSIVE Determinant(_)
Determinant(m) ==
    IF NRows(m) = 0 THEN One
    ELSE IF NRows(m) = 1 THEN m[1][1]
    ELSE SumSeq([j \in 1..NCols(m) |->
            IF m[1][j] = Zero THEN Zero
            ELSE RMul(IF j % 2 = 1 THEN m[1][j] ELSE RNeg(m[1][j]),
                      Determinant(Minor(m, 1, j)))])

\* the inverse of an invertible matrix (adjugate over determinant)
MatInverse(m) ==
    LET d == Determinant(m)
    IN  [i \in 1..NRows(m) |-> [j \in 1..NCols(m) |->
            RDiv(IF (i + j) % 2 = 0 THEN Determinant(Minor(m, j, i))
                 ELSE RNeg(Determinant(Minor(m, j, i))), d)]]

\* rank: the size of the largest square submatrix with non-zero determinant
SubMatrix(m, rs, cs) == [i \in 1..Len(rs) |-> [j \in 1..Len(cs) |-> m[rs[i]][cs[j]]]]
RECURSIVE SetToSeq(_)
SetToSeq(S) ==
    IF S = {} THEN <<>>
    ELSE LET x == CHOOSE y \in S : \A z \in S : y <= z
         IN  <<x>> \o SetToSeq(S \ {x})
HasMinorOfSize(m, k) ==
    \E R \in SUBSET (1..NRows(m)) : \E C \in SUBSET (1..NCols(m)) :
        /\ Cardinality(R) = k
        /\ Cardinality(C) = k
        /\ Determinant(SubMatrix(m, SetToSeq(R), SetToSeq(C))) # Zero
Rank(m) ==
    LET ks == {k \in 0..NRows(m) : k = 0 \/ HasMinorOfSize(m, k)}
    IN  CHOOSE k \in ks : \A j \in ks : j <= k

----------------------------------------------------------------------------
(* Big<T>: the determinant as a scalar that cannot over/underflow.         *)
(* Big.hpp is not among the sources; modelled from the specification: the  *)
(* represented value is phase * exp(log_magnitude), zero is absorbing and  *)
(* get_base returns the represented value for magnitude comparisons.       *)

Big_zero == Zero
Big_from(x) == x
Big_mul(b, x) == RMul(b, x)
Big_is_zero(b) == b = Zero
Big_is_nonzero(b) == b # Zero
Big_get_base(b) == b

----------------------------------------------------------------------------
(* CeperleyMatrix<T> *)

\* the cutoffs, as decimal exponents: 1e50, 1e-50, 1e-6
ceperley_determinant_upper_cutoff == [pow10 |-> 50]
ceperley_determinant_lower_cutoff == [pow10 |-> 50]
ceperley_determinant_safe_lower_cutoff == [pow10 |-> 6]

\* std::abs(det.get_base()) < std::abs(ceperley_determinant_safe_lower_cutoff)
below_safe_lower_cutoff(det) ==
    AbsBelowPow10Neg(Big_get_base(det), ceperley_determinant_safe_lower_cutoff.pow10)
\* std::abs(det.get_base()) < std::abs(ceperley_determinant_lower_cutoff)
below_lower_cutoff(det) ==
    AbsBelowPow10Neg(Big_get_base(det), ceperley_determinant_lower_cutoff.pow10)
\* std::abs(det.get_base()) > std::abs(ceperley_determinant_upper_cutoff)
above_upper_cutoff(det) ==
    AbsAbovePow10(Big_get_base(det), ceperley_determinant_upper_cutoff.pow10)

\* CeperleyMatrix (void): every Eigen matrix is 0 x 0; the scalar members are
\* not initialized and are given fixed values here (no method reads them
\* before writing them, since every method asserts on current_state first)
DefaultEngine ==
    [current_state |-> "UNINITIALIZED",
     be_extra_careful |-> FALSE,
     mat |-> <<>>, invmat |-> <<>>, new_invmat |-> <<>>,
     detrat |-> Zero,
     det |-> Big_zero, old_det |-> Big_zero,
     pending_index |-> 0,
     nullity_lower_bound |-> 0,
     new_nullity_lower_bound |-> 0,
     inverse_recalculated_for_current_update |-> FALSE,
     detrat_inv_m |-> <<>>,
     old_cols_m |-> <<>>, old_rows_m |-> <<>>,
     cols_offset_m |-> <<>>, rows_offset_m |-> <<>>,
     pending_col_indices |-> <<>>, pending_row_indices |-> <<>>]

\* Eigen::FullPivLU of mat in exact arithmetic: rank() is the rank,
\* isInvertible() is rank = cols, the signed product of the diagonal of LU is
\* the determinant and inverse() is the inverse
calculate_inverse(e, update_in_progress) ==
    LET rank == Rank(e.mat)
        nullity == NCols(e.mat) - rank
        isInvertible == rank = NCols(e.mat)
        e1 == IF update_in_progress
              THEN [e EXCEPT !.new_nullity_lower_bound = nullity]
              ELSE [e EXCEPT !.nullity_lower_bound = nullity]
        e2 == IF ~isInvertible
              THEN [e1 EXCEPT !.det = Big_zero]
              ELSE IF update_in_progress
                   THEN [e1 EXCEPT !.det = Big_from(Determinant(e.mat)),
                                   !.new_invmat = MatInverse(e.mat)]
                   ELSE [e1 EXCEPT !.det = Big_from(Determinant(e.mat)),
                                   !.invmat = MatInverse(e.mat)]
    IN  [e2 EXCEPT !.inverse_recalculated_for_current_update = update_in_progress]

perform_singular_update(e, update_rank) ==
    LET e1 == [e EXCEPT !.new_nullity_lower_bound = @ - update_rank]
    IN  IF e1.new_nullity_lower_bound <= 0
        THEN calculate_inverse(e1, TRUE)
        ELSE e1

\* the assertions at the head of perform_singular_update
perform_singular_update_asserts(e) ==
    /\ Big_is_zero(e.det)
    /\ e.new_nullity_lower_bound = e.nullity_lower_bound
    /\ e.new_nullity_lower_bound > 0

\* CeperleyMatrix (initial_mat, be_extra_careful_)
CeperleyMatrix(initial_mat, be_extra_careful_) ==
    calculate_inverse(
        [DefaultEngine EXCEPT !.current_state = "READY_FOR_UPDATE",
                              !.be_extra_careful = be_extra_careful_,
                              !.mat = initial_mat,
                              !.inverse_recalculated_for_current_update = FALSE],
        FALSE)

\* swap_rows without its assertion on current_state
swap_rows_asserts_no_state_check(e, r1, r2) ==
    /\ e.current_state # "UNINITIALIZED"
    /\ r1 \in 1..NRows(e.mat)
    /\ r2 \in 1..NRows(e.mat)
    /\ r1 # r2

swap_rows_asserts(e, r1, r2) ==
    /\ e.current_state = "READY_FOR_UPDATE"
    /\ r1 \in 1..NRows(e.mat)
    /\ r2 \in 1..NRows(e.mat)
    /\ r1 # r2

\* swap_rows exchanging the rows of the inverse instead of its columns
swap_rows_swaps_inverse_rows(e, r1, r2) ==
    [e EXCEPT !.mat = SwapRows(@, r1, r2),
              !.invmat = IF e.nullity_lower_bound = 0 THEN SwapRows(@, r1, r2) ELSE @,
              !.det = Big_mul(@, Rat(-1))]

swap_rows(e, r1, r2) ==
    [e EXCEPT !.mat = SwapRows(@, r1, r2),
              !.invmat = IF e.nullity_lower_bound = 0 THEN SwapCols(@, r1, r2) ELSE @,
              !.det = Big_mul(@, Rat(-1))]

swap_columns_asserts(e, c1, c2) ==
    /\ e.current_state = "READY_FOR_UPDATE"
    /\ c1 \in 1..NCols(e.mat)
    /\ c2 \in 1..NCols(e.mat)
    /\ c1 # c2

swap_columns(e, c1, c2) ==
    [e EXCEPT !.mat = SwapCols(@, c1, c2),
              !.invmat = IF e.nullity_lower_bound = 0 THEN SwapRows(@, c1, c2) ELSE @,
              !.det = Big_mul(@, Rat(-1))]

\* the tail of an update_* without the recomputation of be_extra_careful
apply_detrat_never_recomputes(e, detrat_) ==
    LET e1 == [e EXCEPT !.detrat = detrat_, !.det = Big_mul(@, detrat_)]
    IN  IF Big_is_nonzero(e1.det)
        THEN e1
        ELSE [e1 EXCEPT !.new_nullity_lower_bound = 1]

\* the tail shared by the non-singular branch of every update_*: det *= detrat,
\* then either the zero case or the be_extra_careful recomputation
\* (update_row tests is_nonzero first, update_columns is_zero first)
apply_detrat(e, detrat_) ==
    LET e1 == [e EXCEPT !.detrat = detrat_, !.det = Big_mul(@, detrat_)]
    IN  IF Big_is_nonzero(e1.det)
        THEN IF e1.be_extra_careful /\ below_safe_lower_cutoff(e1.det)
             THEN calculate_inverse(e1, TRUE)
             ELSE e1
        ELSE [e1 EXCEPT !.new_nullity_lower_bound = 1]

update_row_asserts(e, r, row) ==
    /\ r \in 1..NRows(e.mat)
    /\ Len(row) = NCols(e.mat)
    /\ e.current_state = "READY_FOR_UPDATE"
    /\ ~e.inverse_recalculated_for_current_update

\* an update_row that takes the determinant ratio from the row it replaces
update_row_ratio_of_old_row(e, r, row) ==
    LET e1 == [e EXCEPT !.old_cols_m = [i \in 1..NRows(e.mat) |-> <<e.mat[r][i]>>],
                        !.old_det = e.det,
                        !.new_nullity_lower_bound = e.nullity_lower_bound,
                        !.mat = SetRow(@, r, row),
                        !.pending_index = r]
        e2 == IF e.nullity_lower_bound = 0
              THEN apply_detrat(e1, VDot(Row(e.mat, r), Col(e1.invmat, r)))
              ELSE perform_singular_update(e1, 1)
    IN  [e2 EXCEPT !.current_state = "ROW_UPDATE_IN_PROGRESS"]

update_row(e, r, row) ==
    LET e1 == [e EXCEPT !.old_cols_m = [i \in 1..NRows(e.mat) |-> <<e.mat[r][i]>>],
                        !.old_det = e.det,
                        !.new_nullity_lower_bound = e.nullity_lower_bound,
                        !.mat = SetRow(@, r, row),
                        !.pending_index = r]
        e2 == IF e.nullity_lower_bound = 0
              THEN apply_detrat(e1, VDot(Row(e1.mat, r), Col(e1.invmat, r)))
              ELSE perform_singular_update(e1, 1)
    IN  [e2 EXCEPT !.current_state = "ROW_UPDATE_IN_PROGRESS"]

update_column_asserts(e, c, col) ==
    /\ c \in 1..NCols(e.mat)
    /\ Len(col) = NRows(e.mat)
    /\ e.current_state = "READY_FOR_UPDATE"
    /\ ~e.inverse_recalculated_for_current_update

update_column(e, c, col) ==
    LET e1 == [e EXCEPT !.old_cols_m = [i \in 1..NRows(e.mat) |-> <<e.mat[i][c]>>],
                        !.old_det = e.det,
                        !.new_nullity_lower_bound = e.nullity_lower_bound,
                        !.mat = SetCol(@, c, col),
                        !.pending_index = c]
        e2 == IF e.nullity_lower_bound = 0
              THEN apply_detrat(e1, VDot(Row(e1.invmat, c), Col(e1.mat, c)))
              ELSE perform_singular_update(e1, 1)
    IN  [e2 EXCEPT !.current_state = "COLUMN_UPDATE_IN_PROGRESS"]

\* the determinant and inverse of the ratio matrix detrat_m: a 1 x 1 matrix is
\* handled without a decomposition, a larger one by Eigen::FullPivLU; when it
\* is not invertible detrat is zero and detrat_inv_m keeps its old value
apply_detrat_m(e, detrat_m) ==
    LET e1 == IF NCols(detrat_m) = 1
              THEN IF detrat_m[1][1] # Zero
                   THEN [e EXCEPT !.detrat_inv_m = <<<<RDiv(One, detrat_m[1][1])>>>>]
                   ELSE e
              ELSE IF Rank(detrat_m) = NCols(detrat_m)
                   THEN [e EXCEPT !.detrat_inv_m = MatInverse(detrat_m)]
                   ELSE e
        detrat_ == IF NCols(detrat_m) = 1 THEN detrat_m[1][1]
                   ELSE IF Rank(detrat_m) = NCols(detrat_m) THEN Determinant(detrat_m)
                   ELSE Zero
    IN  apply_detrat(e1, detrat_)

\* cols is a sequence of pairs <<column of mat, column of srcmat>>
update_columns_asserts(e, cols, srcmat) ==
    /\ Len(cols) > 0
    /\ Len(cols) <= NCols(e.mat)
    /\ NRows(srcmat) = NRows(e.mat)
    /\ e.current_state = "READY_FOR_UPDATE"
    /\ ~e.inverse_recalculated_for_current_update
    /\ e.nullity_lower_bound >= 0
    /\ \A i \in 1..Len(cols) :
          /\ cols[i][2] \in 1..NCols(srcmat)
          /\ cols[i][1] \in 1..NCols(e.mat)
          /\ \A j \in 1..(i - 1) : cols[i][1] # cols[j][1]

\* the loop over cols: the i-th pass saves column cols[i].first of the matrix
\* as it is then, and adds the offset to it
RECURSIVE update_columns_loop(_, _, _, _)
update_columns_loop(e, cols, srcmat, i) ==
    IF i > Len(cols) THEN e
    ELSE LET c == cols[i][1]
             offset == VSub(Col(srcmat, cols[i][2]), Col(e.mat, c))
         IN  update_columns_loop(
                 [e EXCEPT !.old_cols_m = SetCol(@, i, Col(e.mat, c)),
                           !.pending_col_indices = Append(@, c),
                           !.cols_offset_m = SetCol(@, i, offset),
                           !.mat = SetCol(@, c, VAdd(Col(e.mat, c), offset))],
                 cols, srcmat, i + 1)

update_columns(e, cols, srcmat) ==
    LET k == Len(cols)
        e0 == [e EXCEPT !.old_cols_m = ZeroMat(NRows(e.mat), k),
                        !.cols_offset_m = ZeroMat(NRows(e.mat), k),
                        !.pending_col_indices = <<>>]
        e1 == [update_columns_loop(e0, cols, srcmat, 1)
                  EXCEPT !.old_det = e.det,
                         !.new_nullity_lower_bound = e.nullity_lower_bound]
        detrat_m == [i \in 1..k |-> [j \in 1..k |->
                        RAdd(VDot(Row(e1.invmat, cols[i][1]), Col(e1.cols_offset_m, j)),
                             IF i = j THEN One ELSE Zero)]]
        e2 == IF e.nullity_lower_bound # 0
              THEN perform_singular_update(e1, k)
              ELSE apply_detrat_m(e1, detrat_m)
    IN  [e2 EXCEPT !.current_state = "COLUMNS_UPDATE_IN_PROGRESS"]

update_rows_and_columns_asserts(e, rows, cols, srcmat) ==
    /\ Len(cols) > 0 \/ Len(rows) > 0
    /\ Len(cols) <= NCols(e.mat)
    /\ Len(rows) <= NRows(e.mat)
    /\ NRows(srcmat) = NRows(e.mat)
    /\ NCols(srcmat) = NCols(e.mat)
    /\ e.current_state = "READY_FOR_UPDATE"
    /\ ~e.inverse_recalculated_for_current_update
    /\ e.nullity_lower_bound >= 0
    /\ \A i \in 1..Len(rows) :
          rows[i] \in 1..NRows(e.mat) /\ \A j \in 1..(i - 1) : rows[i] # rows[j]
    /\ \A i \in 1..Len(cols) :
          cols[i] \in 1..NCols(e.mat) /\ \A j \in 1..(i - 1) : cols[i] # cols[j]

\* "remember and update rows"
RECURSIVE update_rows_loop(_, _, _, _)
update_rows_loop(e, rows, srcmat, i) ==
    IF i > Len(rows) THEN e
    ELSE LET r == rows[i]
             offset == VSub(Row(srcmat, r), Row(e.mat, r))
         IN  update_rows_loop(
                 [e EXCEPT !.old_rows_m = SetRow(@, i, Row(e.mat, r)),
                           !.rows_offset_m = SetRow(@, i, offset),
                           !.mat = SetRow(@, r, VAdd(Row(e.mat, r), offset))],
                 rows, srcmat, i + 1)

\* "remember and update columns", run after the rows have been updated
RECURSIVE update_cols_loop(_, _, _, _)
update_cols_loop(e, cols, srcmat, i) ==
    IF i > Len(cols) THEN e
    ELSE LET c == cols[i]
             offset == VSub(Col(srcmat, c), Col(e.mat, c))
         IN  update_cols_loop(
                 [e EXCEPT !.old_cols_m = SetCol(@, i, Col(e.mat, c)),
                           !.cols_offset_m = SetCol(@, i, offset),
                           !.mat = SetCol(@, c, VAdd(Col(e.mat, c), offset))],
                 cols, srcmat, i + 1)

\* the (nc + nr) x (nc + nr) ratio matrix of update_rows_and_columns
rowcol_detrat_m(e, rows, cols) ==
    LET nr == Len(rows)
        nc == Len(cols)
    IN  [i \in 1..(nc + nr) |-> [j \in 1..(nc + nr) |->
            IF i <= nc
            THEN IF j <= nc
                 THEN RAdd(VDot(Row(e.invmat, cols[i]), Col(e.cols_offset_m, j)),
                           IF i = j THEN One ELSE Zero)
                 ELSE e.invmat[cols[i]][rows[j - nc]]
            ELSE IF j <= nc
                 THEN VDot(VecMat(Row(e.rows_offset_m, i - nc), e.invmat),
                           Col(e.cols_offset_m, j))
                 ELSE RAdd(VDot(Row(e.rows_offset_m, i - nc), Col(e.invmat, rows[j - nc])),
                           IF i = j THEN One ELSE Zero)]]

update_rows_and_columns(e, rows, cols, srcmat) ==
    LET e0 == [e EXCEPT !.old_rows_m = ZeroMat(Len(rows), NCols(e.mat)),
                        !.rows_offset_m = ZeroMat(Len(rows), NCols(e.mat)),
                        !.pending_row_indices = rows]
        e1 == update_rows_loop(e0, rows, srcmat, 1)
        e2 == [e1 EXCEPT !.old_cols_m = ZeroMat(NRows(e.mat), Len(cols)),
                         !.cols_offset_m = ZeroMat(NRows(e.mat), Len(cols)),
                         !.pending_col_indices = cols]
        e3 == [update_cols_loop(e2, cols, srcmat, 1)
                  EXCEPT !.old_det = e.det,
                         !.new_nullity_lower_bound = e.nullity_lower_bound]
        e4 == IF e.nullity_lower_bound # 0
              THEN perform_singular_update(e3, Len(cols))
              ELSE apply_detrat_m(e3, rowcol_detrat_m(e3, rows, cols))
    IN  [e4 EXCEPT !.current_state = "ROWCOL_UPDATE_IN_PROGRESS"]

\* finish_* that commits a nullity of zero whatever the update found
finish_common_clears_nullity(e, closed_form_invmat) ==
    LET e1 == IF e.new_nullity_lower_bound = 0
                 /\ ~e.inverse_recalculated_for_current_update
              THEN IF \/ (~e.be_extra_careful /\ below_lower_cutoff(e.det))
                      \/ above_upper_cutoff(e.det)
                   THEN calculate_inverse(e, TRUE)
                   ELSE [e EXCEPT !.invmat = closed_form_invmat]
              ELSE e
    IN  [e1 EXCEPT !.nullity_lower_bound = 0,
                   !.invmat = IF e1.inverse_recalculated_for_current_update
                              THEN e1.new_invmat ELSE @,
                   !.inverse_recalculated_for_current_update = FALSE,
                   !.current_state = "READY_FOR_UPDATE"]

\* finish_* that does not commit the pending nullity
finish_common_keeps_nullity(e, closed_form_invmat) ==
    LET e1 == IF e.new_nullity_lower_bound = 0
                 /\ ~e.inverse_recalculated_for_current_update
              THEN IF \/ (~e.be_extra_careful /\ below_lower_cutoff(e.det))
                      \/ above_upper_cutoff(e.det)
                   THEN calculate_inverse(e, TRUE)
                   ELSE [e EXCEPT !.invmat = closed_form_invmat]
              ELSE e
    IN  [e1 EXCEPT !.invmat = IF e1.inverse_recalculated_for_current_update
                              THEN e1.new_invmat ELSE @,
                   !.inverse_recalculated_for_current_update = FALSE,
                   !.current_state = "READY_FOR_UPDATE"]

\* finish_* that takes the closed-form update whatever the pending nullity
finish_common_whatever_nullity(e, closed_form_invmat) ==
    LET e1 == IF ~e.inverse_recalculated_for_current_update
              THEN [e EXCEPT !.invmat = closed_form_invmat]
              ELSE e
    IN  [e1 EXCEPT !.nullity_lower_bound = e1.new_nullity_lower_bound,
                   !.invmat = IF e1.inverse_recalculated_for_current_update
                              THEN e1.new_invmat ELSE @,
                   !.inverse_recalculated_for_current_update = FALSE,
                   !.current_state = "READY_FOR_UPDATE"]

\* the part every finish_* shares: the choice between recomputing the inverse
\* and the closed-form update, then the commit of the pending nullity and of a
\* recomputed inverse
finish_common(e, closed_form_invmat) ==
    LET e1 == IF e.new_nullity_lower_bound = 0
                 /\ ~e.inverse_recalculated_for_current_update
              THEN IF \/ (~e.be_extra_careful /\ below_lower_cutoff(e.det))
                      \/ above_upper_cutoff(e.det)
                   THEN calculate_inverse(e, TRUE)
                   ELSE [e EXCEPT !.invmat = closed_form_invmat]
              ELSE e
    IN  [e1 EXCEPT !.nullity_lower_bound = e1.new_nullity_lower_bound,
                   !.invmat = IF e1.inverse_recalculated_for_current_update
                              THEN e1.new_invmat ELSE @,
                   !.inverse_recalculated_for_current_update = FALSE,
                   !.current_state = "READY_FOR_UPDATE"]

\* equation (12) of Ceperley et al
finish_row_update_invmat(e) ==
    LET p == e.pending_index
        oldcol == Col(e.invmat, p)
        reduced == MSub(e.invmat,
                        Outer(VDivide(Col(e.invmat, p), e.detrat),
                              VecMat(Row(e.mat, p), e.invmat)))
    IN  SetCol(reduced, p, VDivide(oldcol, e.detrat))

finish_row_update_asserts(e) == e.current_state = "ROW_UPDATE_IN_PROGRESS"
finish_row_update(e) == finish_common(e, finish_row_update_invmat(e))

finish_column_update_invmat(e) ==
    LET p == e.pending_index
        oldrow == Row(e.invmat, p)
        reduced == MSub(e.invmat,
                        Outer(MatVec(e.invmat, Col(e.mat, p)),
                              VDivide(Row(e.invmat, p), e.detrat)))
    IN  SetRow(reduced, p, VDivide(oldrow, e.detrat))

finish_column_update_asserts(e) == e.current_state = "COLUMN_UPDATE_IN_PROGRESS"
finish_column_update(e) == finish_common(e, finish_column_update_invmat(e))

finish_columns_update_invmat(e) ==
    LET n == NRows(e.invmat)
        nc == Len(e.pending_col_indices)
        \* cols_offset_m * detrat_inv_m.col(i)
        w(i) == MatVec(e.cols_offset_m, Col(e.detrat_inv_m, i))
        \* invmat * ((cols_offset_m * detrat_inv_m.col(i)) * invmat.row(pending_col_indices[i]))
        term(i) == MatMul(e.invmat, Outer(w(i), Row(e.invmat, e.pending_col_indices[i])))
        invmat_offset ==
            [a \in 1..n |-> [b \in 1..n |->
                RNeg(SumSeq([i \in 1..nc |-> term(i)[a][b]]))]]
    IN  MAdd(e.invmat, invmat_offset)

finish_columns_update_asserts(e) == e.current_state = "COLUMNS_UPDATE_IN_PROGRESS"
finish_columns_update(e) == finish_common(e, finish_columns_update_invmat(e))

finish_rows_and_columns_update_invmat(e) ==
    LET n == NRows(e.invmat)
        nr == Len(e.pending_row_indices)
        nc == Len(e.pending_col_indices)
        pr == e.pending_row_indices
        pc == e.pending_col_indices
        dinv == e.detrat_inv_m
        cm == MatMul(e.invmat, e.cols_offset_m)
        rm == MatMul(e.rows_offset_m, e.invmat)
        \* (cm * detrat_inv_m.block(0, i, nc, 1)) * invmat.row(pending_col_indices[i])
        t1(a, b) == SumSeq([i \in 1..nc |->
                      RMul(VDot(cm[a], [k \in 1..nc |-> dinv[k][i]]), e.invmat[pc[i]][b])])
        \* invmat.col(pending_row_indices[j]) * detrat_inv_m(j + nc, i) * invmat.row(pending_col_indices[i])
        t2(a, b) == SumSeq([i \in 1..nc |-> SumSeq([j \in 1..nr |->
                      RMul(RMul(e.invmat[a][pr[j]], dinv[j + nc][i]), e.invmat[pc[i]][b])])])
        \* invmat.col(pending_row_indices[j]) * (detrat_inv_m.block(j + nc, nc, 1, nr) * rm)
        t3(a, b) == SumSeq([j \in 1..nr |->
                      RMul(e.invmat[a][pr[j]],
                           SumSeq([k \in 1..nr |-> RMul(dinv[j + nc][nc + k], rm[k][b])]))])
        \* cm * detrat_inv_m.block(0, nc, nc, nr) * rm
        t4(a, b) == SumSeq([i \in 1..nc |-> SumSeq([j \in 1..nr |->
                      RMul(RMul(cm[a][i], dinv[i][nc + j]), rm[j][b])])])
        invmat_offset ==
            [a \in 1..n |-> [b \in 1..n |->
                RNeg(RAdd(RAdd(t1(a, b), t2(a, b)), RAdd(t3(a, b), t4(a, b))))]]
    IN  MAdd(e.invmat, invmat_offset)

finish_rows_and_columns_update_asserts(e) == e.current_state = "ROWCOL_UPDATE_IN_PROGRESS"
finish_rows_and_columns_update(e) ==
    finish_common(e, finish_rows_and_columns_update_invmat(e))

cancel_row_update_asserts(e) == e.current_state = "ROW_UPDATE_IN_PROGRESS"
cancel_row_update(e) ==
    [e EXCEPT !.mat = SetRow(@, e.pending_index, Col(e.old_cols_m, 1)),
              !.det = e.old_det,
              !.inverse_recalculated_for_current_update = FALSE,
              !.current_state = "READY_FOR_UPDATE"]

\* a cancel_column_update that leaves the flag of a recomputed inverse alone
cancel_column_update_keeps_flag(e) ==
    [e EXCEPT !.mat = SetCol(@, e.pending_index, Col(e.old_cols_m, 1)),
              !.det = e.old_det,
              !.current_state = "READY_FOR_UPDATE"]

cancel_column_update_asserts(e) == e.current_state = "COLUMN_UPDATE_IN_PROGRESS"
cancel_column_update(e) ==
    [e EXCEPT !.mat = SetCol(@, e.pending_index, Col(e.old_cols_m, 1)),
              !.det = e.old_det,
              !.inverse_recalculated_for_current_update = FALSE,
              !.current_state = "READY_FOR_UPDATE"]

RECURSIVE restore_columns(_, _, _, _)
restore_columns(m, indices, old_cols, i) ==
    IF i > Len(indices) THEN m
    ELSE restore_columns(SetCol(m, indices[i], Col(old_cols, i)), indices, old_cols, i + 1)

RECURSIVE restore_rows(_, _, _, _)
restore_rows(m, indices, old_rows, i) ==
    IF i > Len(indices) THEN m
    ELSE restore_rows(SetRow(m, indices[i], Row(old_rows, i)), indices, old_rows, i + 1)

cancel_columns_update_asserts(e) == e.current_state = "COLUMNS_UPDATE_IN_PROGRESS"
cancel_columns_update(e) ==
    [e EXCEPT !.mat = restore_columns(@, e.pending_col_indices, e.old_cols_m, 1),
              !.det = e.old_det,
              !.inverse_recalculated_for_current_update = FALSE,
              !.current_state = "READY_FOR_UPDATE"]

\* cancel_rows_and_columns_update restoring the rows before the columns
cancel_rows_and_columns_update_rows_first(e) ==
    [e EXCEPT !.mat = restore_columns(
                          restore_rows(@, e.pending_row_indices, e.old_rows_m, 1),
                          e.pending_col_indices, e.old_cols_m, 1),
              !.det = e.old_det,
              !.inverse_recalculated_for_current_update = FALSE,
              !.current_state = "READY_FOR_UPDATE"]

\* the rows are restored after the columns, since the old columns were saved
\* after the rows had been updated
cancel_rows_and_columns_update_asserts(e) == e.current_state = "ROWCOL_UPDATE_IN_PROGRESS"
cancel_rows_and_columns_update(e) ==
    [e EXCEPT !.mat = restore_rows(
                          restore_columns(@, e.pending_col_indices, e.old_cols_m, 1),
                          e.pending_row_indices, e.old_rows_m, 1),
              !.det = e.old_det,
              !.inverse_recalculated_for_current_update = FALSE,
              !.current_state = "READY_FOR_UPDATE"]

refresh_state_asserts(e) == e.current_state = "READY_FOR_UPDATE"
refresh_state(e) == calculate_inverse(e, FALSE)

get_matrix_asserts(e) == e.current_state # "UNINITIALIZED"
\* a get_inverse that checks the nullity only
get_inverse_asserts_no_state_check(e) == e.nullity_lower_bound = 0

get_inverse_asserts(e) ==
    e.current_state = "READY_FOR_UPDATE" /\ e.nullity_lower_bound = 0
get_determinant_asserts(e) == e.current_state # "UNINITIALIZED"
is_singular_asserts(e) == e.current_state # "UNINITIALIZED"
is_singular(e) == Big_is_zero(e.det)

----------------------------------------------------------------------------
(* Particles, positions and amplitudes, as far as SwappedSystem uses them.  *)
(* PositionArguments and the base class Wavefunction::Amplitude are not     *)
(* among the sources; they are modelled from the specification: positions   *)
(* are, per species, the ordered list of the sites of the particles, and an *)
(* amplitude holds positions with at most one move in progress.             *)

\* the lattice is a chain of NSites sites, numbered 1..NSites
NSites == 4
\* the subsystem is the first SubsystemLength sites of the chain
SubsystemLength == 2
\* the number of species; the first species has NFilled particles and every
\* other species has one
NSpecies == 2
NFilled == 2

Sites == 1..NSites
Species == 1..NSpecies

Particle(index_, species_) == [index |-> index_, species |-> species_]
\* a null pointer to a Particle
NoParticle == [index |-> 0, species |-> 0]
SingleParticleMove(particle_, destination_) ==
    [particle |-> particle_, destination |-> destination_]

get_N_species(r) == Len(r)
get_N_filled(r, species) == Len(r[species])
particle_is_valid(r, particle) ==
    /\ particle.species \in 1..get_N_species(r)
    /\ particle.index \in 1..get_N_filled(r, particle.species)
\* PositionArguments::operator[]
position_of(r, particle) == r[particle.species][particle.index]
is_occupied(r, site, species) ==
    \E i \in 1..get_N_filled(r, species) : r[species][i] = site
\* update_position fails if another particle of the species is on the site
update_position_asserts(r, particle, site) ==
    /\ particle_is_valid(r, particle)
    /\ site \in Sites
    /\ is_occupied(r, site, particle.species) => position_of(r, particle) = site
update_position(r, particle, site) ==
    [r EXCEPT ![particle.species][particle.index] = site]
PositionArguments_swap_particles(r, i, j, species) ==
    [r EXCEPT ![species] = [@ EXCEPT ![i] = r[species][j], ![j] = r[species][i]]]

\* an amplitude on the positions r with no move in progress; old_r, the
\* positions a cancel_move goes back to, is kept equal to r between moves
Amplitude(r_) == [r |-> r_, old_r |-> r_, move_in_progress |-> FALSE]
Amplitude_get_positions(a) == a.r
Amplitude_clone(a) == a
Amplitude_reset(a, r_) == Amplitude(r_)

RECURSIVE apply_move(_, _, _)
apply_move(r, move, i) ==
    IF i > Len(move) THEN r
    ELSE apply_move(update_position(r, move[i].particle, move[i].destination),
                    move, i + 1)
RECURSIVE apply_move_asserts(_, _, _)
apply_move_asserts(r, move, i) ==
    i <= Len(move) =>
       /\ update_position_asserts(r, move[i].particle, move[i].destination)
       /\ apply_move_asserts(
              update_position(r, move[i].particle, move[i].destination), move, i + 1)

Amplitude_perform_move_asserts(a, move) ==
    /\ ~a.move_in_progress
    /\ apply_move_asserts(a.r, move, 1)
Amplitude_perform_move(a, move) ==
    [a EXCEPT !.old_r = a.r, !.r = apply_move(a.r, move, 1), !.move_in_progress = TRUE]
Amplitude_finish_move_asserts(a) == a.move_in_progress
Amplitude_finish_move(a) == Amplitude(a.r)
Amplitude_cancel_move_asserts(a) == a.move_in_progress
Amplitude_cancel_move(a) == Amplitude(a.old_r)
Amplitude_swap_particles_asserts(a, i, j, species) ==
    /\ ~a.move_in_progress
    /\ species \in 1..get_N_species(a.r)
    /\ i \in 1..get_N_filled(a.r, species)
    /\ j \in 1..get_N_filled(a.r, species)
Amplitude_swap_particles(a, i, j, species) ==
    Amplitude(PositionArguments_swap_particles(a.r, i, j, species))

\* SimpleSubsystem<1> of length SubsystemLength on the chain: site_from_index
\* of the 0-based site index is its one coordinate
position_is_within(site_index) == site_index - 1 < SubsystemLength

----------------------------------------------------------------------------
(* SwappedSystem.  Slots of the pairing lists are numbered from 1, so that  *)
(* vector_find returns a slot >= 1, or -1; -2 stands for "not moved".       *)

vector_find(vec, val) ==
    IF \E i \in 1..Len(vec) : vec[i] = val
    THEN CHOOSE i \in 1..Len(vec) :
            vec[i] = val /\ \A j \in 1..(i - 1) : vec[j] # val
    ELSE -1

\* SwappedSystem (subsystem_): the members the constructor does not set
\* (recent_delta, recent_particle1, recent_particle2) are given fixed values;
\* update writes them before cancel_update reads them.  phibeta1 and phibeta2
\* are shared handles: phibeta1 is the amplitude the handle points to and
\* phibeta1_unique is phibeta1.unique(), false for the empty handle
SwappedSystem ==
    [copy1_subsystem_indices |-> <<>>,
     copy2_subsystem_indices |-> <<>>,
     phibeta1 |-> Amplitude(<<>>),
     phibeta2 |-> Amplitude(<<>>),
     phibeta1_unique |-> FALSE,
     phibeta2_unique |-> FALSE,
     phibeta1_dirty |-> FALSE,
     phibeta2_dirty |-> FALSE,
     current_state |-> "UNINITIALIZED",
     recent_delta |-> 0,
     recent_particle1 |-> NoParticle,
     recent_particle2 |-> NoParticle]

subsystem_particle_counts_match(sw) ==
    \A i \in 1..Len(sw.copy1_subsystem_indices) :
        Len(sw.copy1_subsystem_indices[i]) = Len(sw.copy2_subsystem_indices[i])

\* the loop of swap_positions over the slots of one species: v1 and v2 are
\* the positions of the species in the two copies
RECURSIVE swap_positions_loop(_, _, _, _, _)
swap_positions_loop(v1, v2, c1_s, c2_s, i) ==
    IF i > Len(c1_s) THEN <<v1, v2>>
    ELSE LET i1 == c1_s[i]
             i2 == c2_s[i]
             tmp_pos == v1[i1]
         IN  swap_positions_loop([v1 EXCEPT ![i1] = v2[i2]],
                                 [v2 EXCEPT ![i2] = tmp_pos],
                                 c1_s, c2_s, i + 1)

\* the pair <<r1, r2>> after swap_positions (r1, r2)
swap_positions(sw, r1, r2) ==
    LET swapped(species) ==
            swap_positions_loop(r1[species], r2[species],
                                sw.copy1_subsystem_indices[species],
                                sw.copy2_subsystem_indices[species], 1)
    IN  <<[species \in 1..get_N_species(r1) |-> swapped(species)[1]],
          [species \in 1..get_N_species(r1) |-> swapped(species)[2]]>>

swap_positions_asserts(sw, r1, r2) ==
    /\ get_N_species(r1) = get_N_species(r2)
    /\ get_N_species(r1) = Len(sw.copy1_subsystem_indices)
    /\ get_N_species(r1) = Len(sw.copy2_subsystem_indices)
    /\ \A i \in 1..get_N_species(r1) : get_N_filled(r1, i) = get_N_filled(r2, i)
    /\ subsystem_particle_counts_match(sw)

reinitialize_phibetas(sw, phialpha1, phialpha2) ==
    LET swapped == swap_positions(sw, Amplitude_get_positions(phialpha1),
                                  Amplitude_get_positions(phialpha2))
    IN  [sw EXCEPT !.phibeta1 = Amplitude_reset(Amplitude_clone(phialpha1), swapped[1]),
                   !.phibeta1_unique = TRUE,
                   !.phibeta1_dirty = FALSE,
                   !.phibeta2 = Amplitude_reset(Amplitude_clone(phialpha2), swapped[2]),
                   !.phibeta2_unique = TRUE,
                   !.phibeta2_dirty = FALSE]

\* the particles of a species that are within the subsystem, by index
RECURSIVE indices_within(_, _)
indices_within(v, i) ==
    IF i > Len(v) THEN <<>>
    ELSE (IF position_is_within(v[i]) THEN <<i>> ELSE <<>>) \o indices_within(v, i + 1)

initialize_lists(sw, phialpha1, phialpha2) ==
    [sw EXCEPT !.copy1_subsystem_indices =
                   [species \in 1..get_N_species(phialpha1.r) |->
                       indices_within(phialpha1.r[species], 1)],
               !.copy2_subsystem_indices =
                   [species \in 1..get_N_species(phialpha1.r) |->
                       indices_within(phialpha2.r[species], 1)]]

initialize_asserts(sw, phialpha1, phialpha2) ==
    /\ sw.current_state = "UNINITIALIZED"
    /\ get_N_species(phialpha1.r) = get_N_species(phialpha2.r)
    /\ \A i \in 1..get_N_species(phialpha1.r) :
          get_N_filled(phialpha1.r, i) = get_N_filled(phialpha2.r, i)
    /\ subsystem_particle_counts_match(initialize_lists(sw, phialpha1, phialpha2))

initialize(sw, phialpha1, phialpha2) ==
    [reinitialize_phibetas(initialize_lists(sw, phialpha1, phialpha2),
                           phialpha1, phialpha2)
        EXCEPT !.current_state = "READY"]

count_subsystem_particle_counts_for_match(wf1, wf2) ==
    \A species \in 1..get_N_species(wf1.r) :
        Len(indices_within(wf1.r[species], 1)) = Len(indices_within(wf2.r[species], 1))

\* the locals update computes first from its arguments
update_pairing_index(subsystem_indices, particle) ==
    IF particle = NoParticle THEN -2
    ELSE vector_find(subsystem_indices[particle.species], particle.index)
update_now_in_subsystem(r, particle) ==
    particle # NoParticle /\ position_is_within(position_of(r, particle))
update_delta(subsystem_indices, r, particle) ==
    (IF update_now_in_subsystem(r, particle) THEN 1 ELSE 0)
    + (IF update_pairing_index(subsystem_indices, particle) >= 1 THEN -1 ELSE 0)

\* the copy-on-write left out: the handle is written through as it is
copy_on_write1_skipped(sw) == sw
\* if (!phibeta1.unique()) phibeta1 = phibeta1->clone();
copy_on_write1(sw) ==
    [sw EXCEPT !.phibeta1 = IF sw.phibeta1_unique THEN @ ELSE Amplitude_clone(@),
               !.phibeta1_unique = TRUE]
\* if (!phibeta2.unique()) phibeta2 = phibeta2->clone();
copy_on_write2(sw) ==
    [sw EXCEPT !.phibeta2 = IF sw.phibeta2_unique THEN @ ELSE Amplitude_clone(@),
               !.phibeta2_unique = TRUE]

swap_entries(vec, i, j) == [vec EXCEPT ![i] = vec[j], ![j] = vec[i]]
pop_back(vec) == SubSeq(vec, 1, Len(vec) - 1)
\* the removal of the leaving pair without the move of the last pair into
\* its slot
remove_pair_pop_only(c_s, max_pairing_index) == pop_back(c_s)
\* c_s[max_pairing_index] = c_s[c_s.size() - 1]; c_s.pop_back();
remove_pair(c_s, max_pairing_index) ==
    pop_back([c_s EXCEPT ![max_pairing_index] = c_s[Len(c_s)]])

\* the re-pairing that exchanges the entries of copy1_subsystem_indices
\* whichever pairing index is the smaller
update_repaired_always_copy1(sw, species, pairing_index1, pairing_index2) ==
    LET c1_s == sw.copy1_subsystem_indices[species]
        c2_s == sw.copy2_subsystem_indices[species]
    IN  IF pairing_index1 # pairing_index2
        THEN [sw EXCEPT
                !.phibeta1 = Amplitude_swap_particles(
                                 @, c1_s[pairing_index1], c1_s[pairing_index2], species),
                !.phibeta2 = Amplitude_swap_particles(
                                 @, c2_s[pairing_index1], c2_s[pairing_index2], species),
                !.copy1_subsystem_indices[species] =
                    swap_entries(@, pairing_index1, pairing_index2)]
        ELSE sw

\* delta = -1: the pairing lists and the phibetas after the re-pairing, if
\* any, and before the moves
update_repaired(sw, species, pairing_index1, pairing_index2) ==
    LET c1_s == sw.copy1_subsystem_indices[species]
        c2_s == sw.copy2_subsystem_indices[species]
    IN  IF pairing_index1 # pairing_index2
        THEN [sw EXCEPT
                !.phibeta1 = Amplitude_swap_particles(
                                 @, c1_s[pairing_index1], c1_s[pairing_index2], species),
                !.phibeta2 = Amplitude_swap_particles(
                                 @, c2_s[pairing_index1], c2_s[pairing_index2], species),
                !.copy1_subsystem_indices[species] =
                    IF pairing_index1 < pairing_index2
                    THEN swap_entries(@, pairing_index1, pairing_index2) ELSE @,
                !.copy2_subsystem_indices[species] =
                    IF pairing_index1 < pairing_index2
                    THEN @ ELSE swap_entries(@, pairing_index1, pairing_index2)]
        ELSE sw

\* delta = -1: the two moves handed to the phibetas
update_leaving_move1(sw, particle1, max_pairing_index, r1) ==
    <<SingleParticleMove(
          Particle(sw.copy1_subsystem_indices[particle1.species][max_pairing_index],
                   particle1.species),
          position_of(r1, particle1))>>
update_leaving_move2(sw, particle2, max_pairing_index, r2) ==
    <<SingleParticleMove(
          Particle(sw.copy2_subsystem_indices[particle2.species][max_pairing_index],
                   particle2.species),
          position_of(r2, particle2))>>

update_leaving(sw, particle1, particle2, pairing_index1, pairing_index2, r1, r2) ==
    LET species == particle1.species
        max_pairing_index == IF pairing_index1 > pairing_index2
                             THEN pairing_index1 ELSE pairing_index2
        sw1 == update_repaired(copy_on_write2(copy_on_write1(sw)), species,
                               pairing_index1, pairing_index2)
    IN  [sw1 EXCEPT
            !.phibeta1 = Amplitude_perform_move(
                @, update_leaving_move1(sw1, particle1, max_pairing_index, r1)),
            !.phibeta2 = Amplitude_perform_move(
                @, update_leaving_move2(sw1, particle2, max_pairing_index, r2)),
            !.phibeta1_dirty = TRUE,
            !.phibeta2_dirty = TRUE,
            !.copy1_subsystem_indices[species] = remove_pair(@, max_pairing_index),
            !.copy2_subsystem_indices[species] = remove_pair(@, max_pairing_index)]

update_leaving_asserts(sw, particle1, particle2, pairing_index1, pairing_index2, r1, r2) ==
    /\ pairing_index1 >= 1 /\ pairing_index2 >= 1
    /\ ~update_now_in_subsystem(r1, particle1)
    /\ ~update_now_in_subsystem(r2, particle2)
    /\ ~sw.phibeta1_dirty /\ ~sw.phibeta2_dirty
    /\ LET species == particle1.species
           c1_s == sw.copy1_subsystem_indices[species]
           c2_s == sw.copy2_subsystem_indices[species]
           max_pairing_index == IF pairing_index1 > pairing_index2
                                THEN pairing_index1 ELSE pairing_index2
           sw1 == update_repaired(sw, species, pairing_index1, pairing_index2)
       IN  /\ max_pairing_index <= Len(c1_s) /\ max_pairing_index <= Len(c2_s)
           /\ pairing_index1 # pairing_index2 =>
                 /\ Amplitude_swap_particles_asserts(
                        sw.phibeta1, c1_s[pairing_index1], c1_s[pairing_index2], species)
                 /\ Amplitude_swap_particles_asserts(
                        sw.phibeta2, c2_s[pairing_index1], c2_s[pairing_index2], species)
           /\ Amplitude_perform_move_asserts(
                  sw1.phibeta1, update_leaving_move1(sw1, particle1, max_pairing_index, r1))
           /\ Amplitude_perform_move_asserts(
                  sw1.phibeta2, update_leaving_move2(sw1, particle2, max_pairing_index, r2))

\* delta = 0 or 1: the pairing lists after the push_backs of delta = 1
update_entered(sw, particle1, particle2, delta) ==
    IF delta = 1
    THEN [sw EXCEPT !.copy1_subsystem_indices[particle1.species] =
                        Append(@, particle1.index),
                    !.copy2_subsystem_indices[particle2.species] =
                        Append(@, particle2.index)]
    ELSE sw

\* delta = 0 or 1: the move of the phibeta that follows the particle moved in
\* one copy; own is the copy of the particle (1 or 2)
update_phibeta_particle(sw, own, particle, now_in_subsystem, pairing_index) ==
    IF now_in_subsystem
    THEN Particle((IF own = 1 THEN sw.copy2_subsystem_indices
                   ELSE sw.copy1_subsystem_indices)[particle.species][pairing_index],
                  particle.species)
    ELSE particle
\* whether the move is made in phibeta1
update_moves_phibeta1(own, now_in_subsystem) ==
    (own = 1 /\ ~now_in_subsystem) \/ (own = 2 /\ now_in_subsystem)

\* the move of the phibeta without the note that it is dirty
update_phibeta_leaves_clean(sw, own, particle, now_in_subsystem, pairing_index, r) ==
    LET move == <<SingleParticleMove(
                     update_phibeta_particle(sw, own, particle, now_in_subsystem,
                                             pairing_index),
                     position_of(r, particle))>>
    IN  IF particle = NoParticle THEN sw
        ELSE IF update_moves_phibeta1(own, now_in_subsystem)
        THEN [copy_on_write1(sw) EXCEPT !.phibeta1 = Amplitude_perform_move(@, move)]
        ELSE [copy_on_write2(sw) EXCEPT !.phibeta2 = Amplitude_perform_move(@, move)]

update_phibeta(sw, own, particle, now_in_subsystem, pairing_index, r) ==
    LET move == <<SingleParticleMove(
                     update_phibeta_particle(sw, own, particle, now_in_subsystem,
                                             pairing_index),
                     position_of(r, particle))>>
    IN  IF particle = NoParticle THEN sw
        ELSE IF update_moves_phibeta1(own, now_in_subsystem)
        THEN [copy_on_write1(sw) EXCEPT !.phibeta1 = Amplitude_perform_move(@, move),
                                        !.phibeta1_dirty = TRUE]
        ELSE [copy_on_write2(sw) EXCEPT !.phibeta2 = Amplitude_perform_move(@, move),
                                        !.phibeta2_dirty = TRUE]

update_phibeta_asserts(sw, own, particle, now_in_subsystem, pairing_index, r) ==
    particle # NoParticle =>
       LET phibeta_particle ==
               update_phibeta_particle(sw, own, particle, now_in_subsystem, pairing_index)
           move == <<SingleParticleMove(phibeta_particle, position_of(r, particle))>>
       IN  /\ now_in_subsystem =>
                 pairing_index \in
                    1..Len((IF own = 1 THEN sw.copy2_subsystem_indices
                            ELSE sw.copy1_subsystem_indices)[particle.species])
           /\ IF update_moves_phibeta1(own, now_in_subsystem)
              THEN /\ ~sw.phibeta1_dirty
                   /\ Amplitude_perform_move_asserts(sw.phibeta1, move)
              ELSE /\ ~sw.phibeta2_dirty
                   /\ Amplitude_perform_move_asserts(sw.phibeta2, move)

\* update (particle1, particle2, phialpha1, phialpha2), called after the
\* phialphas have been moved; a null particle pointer is NoParticle
update(sw, particle1, particle2, phialpha1, phialpha2) ==
    LET r1 == Amplitude_get_positions(phialpha1)
        r2 == Amplitude_get_positions(phialpha2)
        pairing_index1 == update_pairing_index(sw.copy1_subsystem_indices, particle1)
        pairing_index2 == update_pairing_index(sw.copy2_subsystem_indices, particle2)
        particle1_now_in_subsystem == update_now_in_subsystem(r1, particle1)
        particle2_now_in_subsystem == update_now_in_subsystem(r2, particle2)
        delta == update_delta(sw.copy1_subsystem_indices, r1, particle1)
        sw0 == [sw EXCEPT !.current_state = "UPDATE_IN_PROGRESS",
                          !.recent_delta = delta,
                          !.recent_particle1 =
                              IF particle1 # NoParticle THEN particle1 ELSE @,
                          !.recent_particle2 =
                              IF particle2 # NoParticle THEN particle2 ELSE @]
    IN  IF delta = -1
        THEN update_leaving(sw0, particle1, particle2,
                            pairing_index1, pairing_index2, r1, r2)
        ELSE LET sw1 == update_entered(sw0, particle1, particle2, delta)
                 new_pairing_index1 ==
                     IF delta = 1
                     THEN Len(sw1.copy1_subsystem_indices[particle1.species])
                     ELSE pairing_index1
                 new_pairing_index2 ==
                     IF delta = 1
                     THEN Len(sw1.copy2_subsystem_indices[particle2.species])
                     ELSE pairing_index2
                 sw2 == update_phibeta(sw1, 1, particle1, particle1_now_in_subsystem,
                                       new_pairing_index1, r1)
             IN  update_phibeta(sw2, 2, particle2, particle2_now_in_subsystem,
                                new_pairing_index2, r2)

\* the BOOST_ASSERTs at the head of update, lines 72-113: what update requires
\* of its arguments
update_preconditions(sw, particle1, particle2, phialpha1, phialpha2) ==
    LET r1 == Amplitude_get_positions(phialpha1)
        r2 == Amplitude_get_positions(phialpha2)
        particle1_now_in_subsystem == update_now_in_subsystem(r1, particle1)
        particle2_now_in_subsystem == update_now_in_subsystem(r2, particle2)
        delta1 == update_delta(sw.copy1_subsystem_indices, r1, particle1)
        delta2 == update_delta(sw.copy2_subsystem_indices, r2, particle2)
        delta == delta1
    IN  /\ sw.current_state = "READY"
        /\ get_N_species(r1) = get_N_species(r2)
        /\ \A i \in 1..get_N_species(r1) : get_N_filled(r1, i) = get_N_filled(r2, i)
        /\ particle1 = NoParticle \/ particle_is_valid(r1, particle1)
        /\ particle2 = NoParticle \/ particle_is_valid(r2, particle2)
        /\ particle1 # NoParticle \/ delta1 = 0
        /\ particle2 # NoParticle \/ delta2 = 0
        /\ delta1 = delta2
        /\ delta = 0 \/ (/\ particle1 # NoParticle
                         /\ particle2 # NoParticle
                         /\ particle1.species = particle2.species)
        /\ delta = 0 \/ particle1_now_in_subsystem = particle2_now_in_subsystem
        /\ delta # 0 \/ ~(particle1 # NoParticle /\ particle2 # NoParticle)

\* the BOOST_ASSERTs of update, and those of the calls it makes
update_asserts(sw, particle1, particle2, phialpha1, phialpha2) ==
    LET r1 == Amplitude_get_positions(phialpha1)
        r2 == Amplitude_get_positions(phialpha2)
        pairing_index1 == update_pairing_index(sw.copy1_subsystem_indices, particle1)
        pairing_index2 == update_pairing_index(sw.copy2_subsystem_indices, particle2)
        particle1_now_in_subsystem == update_now_in_subsystem(r1, particle1)
        particle2_now_in_subsystem == update_now_in_subsystem(r2, particle2)
        delta1 == update_delta(sw.copy1_subsystem_indices, r1, particle1)
        delta2 == update_delta(sw.copy2_subsystem_indices, r2, particle2)
        delta == delta1
    IN  /\ sw.current_state = "READY"
        /\ get_N_species(r1) = get_N_species(r2)
        /\ \A i \in 1..get_N_species(r1) : get_N_filled(r1, i) = get_N_filled(r2, i)
        /\ particle1 = NoParticle \/ particle_is_valid(r1, particle1)
        /\ particle2 = NoParticle \/ particle_is_valid(r2, particle2)
        /\ particle1 # NoParticle \/ delta1 = 0
        /\ particle2 # NoParticle \/ delta2 = 0
        /\ delta1 = delta2
        /\ delta = 0 \/ (/\ particle1 # NoParticle
                         /\ particle2 # NoParticle
                         /\ particle1.species = particle2.species)
        /\ delta = 0 \/ particle1_now_in_subsystem = particle2_now_in_subsystem
        /\ delta # 0 \/ ~(particle1 # NoParticle /\ particle2 # NoParticle)
        /\ IF delta = -1
           THEN update_leaving_asserts(sw, particle1, particle2,
                                       pairing_index1, pairing_index2, r1, r2)
           ELSE LET sw1 == update_entered(sw, particle1, particle2, delta)
                    new_pairing_index1 ==
                        IF delta = 1
                        THEN Len(sw1.copy1_subsystem_indices[particle1.species])
                        ELSE pairing_index1
                    new_pairing_index2 ==
                        IF delta = 1
                        THEN Len(sw1.copy2_subsystem_indices[particle2.species])
                        ELSE pairing_index2
                    sw2 == update_phibeta(sw1, 1, particle1, particle1_now_in_subsystem,
                                          new_pairing_index1, r1)
                IN  /\ delta = 0 \/ delta = 1
                    /\ subsystem_particle_counts_match(sw1)
                    /\ update_phibeta_asserts(sw1, 1, particle1,
                           particle1_now_in_subsystem, new_pairing_index1, r1)
                    /\ update_phibeta_asserts(sw2, 2, particle2,
                           particle2_now_in_subsystem, new_pairing_index2, r2)

\* finish_update without the assertion on current_state
finish_update_asserts_no_state_check(sw) ==
    /\ subsystem_particle_counts_match(sw)
    /\ sw.phibeta1_dirty => Amplitude_finish_move_asserts(sw.phibeta1)
    /\ sw.phibeta2_dirty => Amplitude_finish_move_asserts(sw.phibeta2)
finish_update_asserts(sw) ==
    /\ sw.current_state = "UPDATE_IN_PROGRESS"
    /\ subsystem_particle_counts_match(sw)
    /\ sw.phibeta1_dirty => Amplitude_finish_move_asserts(sw.phibeta1)
    /\ sw.phibeta2_dirty => Amplitude_finish_move_asserts(sw.phibeta2)
finish_update(sw) ==
    [sw EXCEPT !.current_state = "READY",
               !.phibeta1 = IF sw.phibeta1_dirty THEN Amplitude_finish_move(@) ELSE @,
               !.phibeta1_dirty = FALSE,
               !.phibeta2 = IF sw.phibeta2_dirty THEN Amplitude_finish_move(@) ELSE @,
               !.phibeta2_dirty = FALSE]

cancel_update_asserts(sw) ==
    /\ sw.current_state = "UPDATE_IN_PROGRESS"
    /\ subsystem_particle_counts_match(sw)
    /\ sw.phibeta1_dirty => Amplitude_cancel_move_asserts(sw.phibeta1)
    /\ sw.phibeta2_dirty => Amplitude_cancel_move_asserts(sw.phibeta2)
    /\ sw.recent_delta # 0 =>
          /\ sw.recent_particle1.species = sw.recent_particle2.species
          /\ sw.recent_delta = 1 \/ sw.recent_delta = -1
\* cancel_update that pops the last pair after any update with delta # 0
cancel_update_pops_always(sw) ==
    LET species == sw.recent_particle1.species
        sw1 == [sw EXCEPT
                   !.current_state = "READY",
                   !.phibeta1 = IF sw.phibeta1_dirty THEN Amplitude_cancel_move(@) ELSE @,
                   !.phibeta1_dirty = FALSE,
                   !.phibeta2 = IF sw.phibeta2_dirty THEN Amplitude_cancel_move(@) ELSE @,
                   !.phibeta2_dirty = FALSE]
    IN  IF sw.recent_delta = 0 THEN sw1
        ELSE [sw1 EXCEPT !.copy1_subsystem_indices[species] = pop_back(@),
                         !.copy2_subsystem_indices[species] = pop_back(@)]

cancel_update(sw) ==
    LET species == sw.recent_particle1.species
        sw1 == [sw EXCEPT
                   !.current_state = "READY",
                   !.phibeta1 = IF sw.phibeta1_dirty THEN Amplitude_cancel_move(@) ELSE @,
                   !.phibeta1_dirty = FALSE,
                   !.phibeta2 = IF sw.phibeta2_dirty THEN Amplitude_cancel_move(@) ELSE @,
                   !.phibeta2_dirty = FALSE]
    IN  IF sw.recent_delta = 0 THEN sw1
        ELSE IF sw.recent_delta = 1
        THEN [sw1 EXCEPT !.copy1_subsystem_indices[species] = pop_back(@),
                         !.copy2_subsystem_indices[species] = pop_back(@)]
        ELSE [sw1 EXCEPT !.copy1_subsystem_indices[species] =
                             Append(@, sw.recent_particle1.index),
                         !.copy2_subsystem_indices[species] =
                             Append(@, sw.recent_particle2.index)]

\* verify_phibetas: the assertions of the diagnostic
verify_phibetas(sw, phialpha1, phialpha2) ==
    LET r1 == Amplitude_get_positions(phialpha1)
        r2 == Amplitude_get_positions(phialpha2)
        swapped == swap_positions(sw, r1, r2)
    IN  /\ get_N_species(r1) = get_N_species(r2)
        /\ Len(sw.copy1_subsystem_indices) = get_N_species(r1)
        /\ Len(sw.copy2_subsystem_indices) = get_N_species(r1)
        /\ \A species \in 1..get_N_species(r1) :
              LET N == get_N_filled(r1, species)
                  b1(i) == vector_find(sw.copy1_subsystem_indices[species], i) # -1
                  b2(i) == vector_find(sw.copy2_subsystem_indices[species], i) # -1
                  c1 == Cardinality({i \in 1..N : b1(i)})
                  c2 == Cardinality({i \in 1..N : b2(i)})
              IN  /\ N = get_N_filled(r2, species)
                  /\ \A i \in 1..N :
                        /\ b1(i) = position_is_within(r1[species][i])
                        /\ b2(i) = position_is_within(r2[species][i])
                  /\ c1 = c2
                  /\ c1 = Len(sw.copy1_subsystem_indices[species])
                  /\ c2 = Len(sw.copy2_subsystem_indices[species])
        /\ \A species \in 1..get_N_species(r1) :
              \A i \in 1..get_N_filled(r1, species) :
                 /\ swapped[1][species][i] = sw.phibeta1.r[species][i]
                 /\ swapped[2][species][i] = sw.phibeta2.r[species][i]

----------------------------------------------------------------------------
(* The engine as a state machine.  A call whose BOOST_ASSERTs fail aborts   *)
(* the program, so a call is a step only where its assertions hold.         *)

VARIABLES
    cm,             \* the CeperleyMatrix object
    walk,           \* two amplitudes and the SwappedSystem over them
    sim,            \* the MetropolisSimulation, its walk and its measurements
    meas,           \* a DensityDensityMeasurement and the walk it observes
    cli,            \* the command-line driver reading its input
    lat,            \* an NDLattice and a site or a particle move on it
    est,            \* a RunningEstimate or BinnedEstimate and its values
    comb,           \* a call of random_combination
    amp             \* a wave-function amplitude and the engines it holds

vars == <<cm, walk, sim, meas, cli, lat, est, comb, amp>>

\* the values of sim and meas while neither is exercised
NoSim == [pc |-> "none"]
NoMeas == [pc |-> "none"]
NoCli == [pc |-> "none"]
NoLat == [pc |-> "none"]
NoEst == [pc |-> "none"]
NoComb == [pc |-> "none"]
NoAmp == [pc |-> "none"]

\* no walk: the value of walk while the engine alone is exercised
NoWalk ==
    [phialpha1 |-> Amplitude(<<>>), phialpha2 |-> Amplitude(<<>>),
     swapped_system |-> SwappedSystem,
     pairing_index1 |-> -2, pairing_index2 |-> -2]

\* rows (and columns) replaced by one update_rows_and_columns, at most
MaxMove == 1
\* the entries written by the update_* calls are 0..MaxNewVal
MaxNewVal == 1

\* the entries of the matrix an engine is constructed from, and the entries
\* that the update_* calls write
Vals == {Rat(v) : v \in 0..MaxVal}
NewVals == {Rat(v) : v \in 0..MaxNewVal}
Indices == 1..MatSize
Matrices == [Indices -> [Indices -> Vals]]
NewVectors == [Indices -> NewVals]
NewMatrices == [Indices -> NewVectors]
\* the lists of distinct indices, in increasing order
IndexLists == {SetToSeq(S) : S \in SUBSET Indices}
ShortIndexLists == {l \in IndexLists : Len(l) <= MaxMove}

\* Storage that is dead once the engine is back in READY_FOR_UPDATE is not kept
\* in the state: the rollback members and new_invmat (every update_* writes
\* them before it or its finish_*/cancel_* reads them; a read of the emptied
\* storage is an evaluation error of the model), and the inverse of an engine
\* that records the matrix as singular (no method reads invmat while
\* nullity_lower_bound > 0).
Release(e) ==
    [e EXCEPT !.detrat = Zero,
              !.old_det = Big_zero,
              !.pending_index = 0,
              !.new_nullity_lower_bound = e.nullity_lower_bound,
              !.detrat_inv_m = <<>>,
              !.old_cols_m = <<>>, !.old_rows_m = <<>>,
              !.cols_offset_m = <<>>, !.rows_offset_m = <<>>,
              !.pending_col_indices = <<>>, !.pending_row_indices = <<>>,
              !.new_invmat = <<>>,
              !.invmat = IF e.nullity_lower_bound = 0 THEN @ ELSE <<>>]

\* a default-constructed engine, or one constructed from a matrix
InitCM ==
    /\ cli = NoCli /\ lat = NoLat /\ est = NoEst
    /\ comb = NoComb /\ amp = NoAmp
    /\ cm \in {DefaultEngine} \cup
              {Release(CeperleyMatrix(m, c)) : m \in Matrices, c \in BOOLEAN}
    /\ walk = NoWalk
    /\ sim = NoSim
    /\ meas = NoMeas

SwapRowsCall ==
    /\ cm.current_state = "READY_FOR_UPDATE"
    /\ \E r1, r2 \in Indices :
        /\ swap_rows_asserts(cm, r1, r2)
        /\ cm' = swap_rows(cm, r1, r2)
    /\ UNCHANGED <<walk, sim, meas, cli, lat, est, comb, amp>>

SwapColumnsCall ==
    /\ cm.current_state = "READY_FOR_UPDATE"
    /\ \E c1, c2 \in Indices :
        /\ swap_columns_asserts(cm, c1, c2)
        /\ cm' = swap_columns(cm, c1, c2)
    /\ UNCHANGED <<walk, sim, meas, cli, lat, est, comb, amp>>

UpdateRowCall ==
    /\ cm.current_state = "READY_FOR_UPDATE"
    /\ \E r \in Indices, row \in NewVectors :
        /\ update_row_asserts(cm, r, row)
        /\ cm' = update_row(cm, r, row)
    /\ UNCHANGED <<walk, sim, meas, cli, lat, est, comb, amp>>

UpdateColumnCall ==
    /\ cm.current_state = "READY_FOR_UPDATE"
    /\ \E c \in Indices, col \in NewVectors :
        /\ update_column_asserts(cm, c, col)
        /\ cm' = update_column(cm, c, col)
    /\ UNCHANGED <<walk, sim, meas, cli, lat, est, comb, amp>>

\* the caller hands the new columns as the columns 1..k of srcmat
UpdateColumnsCall ==
    /\ cm.current_state = "READY_FOR_UPDATE"
    /\ \E targets \in IndexLists \ {<<>>} :
         \E srcmat \in [Indices -> [1..Len(targets) -> NewVals]] :
            LET cols == [i \in 1..Len(targets) |-> <<targets[i], i>>]
            IN  /\ update_columns_asserts(cm, cols, srcmat)
                /\ cm' = update_columns(cm, cols, srcmat)
    /\ UNCHANGED <<walk, sim, meas, cli, lat, est, comb, amp>>

\* the entries of srcmat outside the given rows and columns are ignored by
\* update_rows_and_columns; the caller passes zero there
RelevantSrcMats(rows, cols) ==
    {m \in NewMatrices :
        \A i, j \in Indices :
            (\A k \in 1..Len(rows) : rows[k] # i) /\ (\A k \in 1..Len(cols) : cols[k] # j)
                => m[i][j] = Zero}

UpdateRowsAndColumnsCall ==
    /\ cm.current_state = "READY_FOR_UPDATE"
    /\ \E rows \in ShortIndexLists, cols \in ShortIndexLists :
         \E srcmat \in RelevantSrcMats(rows, cols) :
            /\ update_rows_and_columns_asserts(cm, rows, cols, srcmat)
            /\ cm' = update_rows_and_columns(cm, rows, cols, srcmat)
    /\ UNCHANGED <<walk, sim, meas, cli, lat, est, comb, amp>>

FinishRowUpdateCall ==
    /\ finish_row_update_asserts(cm)
    /\ cm' = Release(finish_row_update(cm))
    /\ UNCHANGED <<walk, sim, meas, cli, lat, est, comb, amp>>

FinishColumnUpdateCall ==
    /\ finish_column_update_asserts(cm)
    /\ cm' = Release(finish_column_update(cm))
    /\ UNCHANGED <<walk, sim, meas, cli, lat, est, comb, amp>>

FinishColumnsUpdateCall ==
    /\ finish_columns_update_asserts(cm)
    /\ cm' = Release(finish_columns_update(cm))
    /\ UNCHANGED <<walk, sim, meas, cli, lat, est, comb, amp>>

FinishRowsAndColumnsUpdateCall ==
    /\ finish_rows_and_columns_update_asserts(cm)
    /\ cm' = Release(finish_rows_and_columns_update(cm))
    /\ UNCHANGED <<walk, sim, meas, cli, lat, est, comb, amp>>

CancelRowUpdateCall ==
    /\ cancel_row_update_asserts(cm)
    /\ cm' = Release(cancel_row_update(cm))
    /\ UNCHANGED <<walk, sim, meas, cli, lat, est, comb, amp>>

CancelColumnUpdateCall ==
    /\ cancel_column_update_asserts(cm)
    /\ cm' = Release(cancel_column_update(cm))
    /\ UNCHANGED <<walk, sim, meas, cli, lat, est, comb, amp>>

CancelColumnsUpdateCall ==
    /\ cancel_columns_update_asserts(cm)
    /\ cm' = Release(cancel_columns_update(cm))
    /\ UNCHANGED <<walk, sim, meas, cli, lat, est, comb, amp>>

CancelRowsAndColumnsUpdateCall ==
    /\ cancel_rows_and_columns_update_asserts(cm)
    /\ cm' = Release(cancel_rows_and_columns_update(cm))
    /\ UNCHANGED <<walk, sim, meas, cli, lat, est, comb, amp>>

RefreshStateCall ==
    /\ refresh_state_asserts(cm)
    /\ cm' = Release(refresh_state(cm))
    /\ UNCHANGED <<walk, sim, meas, cli, lat, est, comb, amp>>

NextCM ==
    \/ SwapRowsCall
    \/ SwapColumnsCall
    \/ UpdateRowCall
    \/ UpdateColumnCall
    \/ UpdateColumnsCall
    \/ UpdateRowsAndColumnsCall
    \/ FinishRowUpdateCall
    \/ FinishColumnUpdateCall
    \/ FinishColumnsUpdateCall
    \/ FinishRowsAndColumnsUpdateCall
    \/ CancelRowUpdateCall
    \/ CancelColumnUpdateCall
    \/ CancelColumnsUpdateCall
    \/ CancelRowsAndColumnsUpdateCall
    \/ RefreshStateCall

SpecCM == InitCM /\ [][NextCM]_vars

----------------------------------------------------------------------------
(* The SwappedSystem under its caller, a walk that holds the amplitudes     *)
(* phialpha1 and phialpha2: the walk moves at most one particle in each     *)
(* phialpha, calls update, and then either finishes the moves and calls     *)
(* finish_update or cancels the moves and calls cancel_update.              *)
(* pairing_index1 and pairing_index2 record the locals of that name of the  *)
(* last update until its finish_update or cancel_update.                    *)

\* the positions of the particles of one species: distinct sites
NFilledOf(species) == IF species = 1 THEN NFilled ELSE 1
SpeciesPositions(species) ==
    {v \in [1..NFilledOf(species) -> Sites] :
        \A i, j \in 1..NFilledOf(species) : i # j => v[i] # v[j]}
AllPositions ==
    {r \in [Species -> UNION {SpeciesPositions(species) : species \in Species}] :
        \A species \in Species : r[species] \in SpeciesPositions(species)}
AllParticles ==
    {p \in {Particle(i, species) : i \in 1..NFilled, species \in Species} :
        p.index <= NFilledOf(p.species)}

InitSS ==
    /\ cli = NoCli /\ lat = NoLat /\ est = NoEst
    /\ comb = NoComb /\ amp = NoAmp
    /\ cm = DefaultEngine
    /\ sim = NoSim
    /\ meas = NoMeas
    /\ \E r1, r2 \in AllPositions :
          /\ count_subsystem_particle_counts_for_match(Amplitude(r1), Amplitude(r2))
          /\ walk = [phialpha1 |-> Amplitude(r1), phialpha2 |-> Amplitude(r2),
                     swapped_system |-> SwappedSystem,
                     pairing_index1 |-> -2, pairing_index2 |-> -2]

InitializeCall ==
    /\ initialize_asserts(walk.swapped_system, walk.phialpha1, walk.phialpha2)
    /\ walk' = [walk EXCEPT !.swapped_system =
                                initialize(@, walk.phialpha1, walk.phialpha2)]
    /\ UNCHANGED <<cm, sim, meas, cli, lat, est, comb, amp>>

\* the phialpha after the walk has moved the particle, if any, to the site
moved_phialpha(phialpha, particle, site) ==
    IF particle = NoParticle THEN phialpha
    ELSE Amplitude_perform_move(phialpha, <<SingleParticleMove(particle, site)>>)
moved_phialpha_asserts(phialpha, particle, site) ==
    particle # NoParticle =>
        Amplitude_perform_move_asserts(phialpha, <<SingleParticleMove(particle, site)>>)

UpdateCall ==
    /\ walk.swapped_system.current_state = "READY"
    /\ \E particle1, particle2 \in AllParticles \cup {NoParticle} :
       \E site1, site2 \in Sites :
          /\ particle1 = NoParticle => site1 = 1
          /\ particle2 = NoParticle => site2 = 1
          /\ moved_phialpha_asserts(walk.phialpha1, particle1, site1)
          /\ moved_phialpha_asserts(walk.phialpha2, particle2, site2)
          /\ LET phialpha1 == moved_phialpha(walk.phialpha1, particle1, site1)
                 phialpha2 == moved_phialpha(walk.phialpha2, particle2, site2)
             IN  /\ update_asserts(walk.swapped_system, particle1, particle2,
                                   phialpha1, phialpha2)
                 /\ walk' =
                      [phialpha1 |-> phialpha1,
                       phialpha2 |-> phialpha2,
                       swapped_system |->
                           update(walk.swapped_system, particle1, particle2,
                                  phialpha1, phialpha2),
                       pairing_index1 |->
                           update_pairing_index(
                               walk.swapped_system.copy1_subsystem_indices, particle1),
                       pairing_index2 |->
                           update_pairing_index(
                               walk.swapped_system.copy2_subsystem_indices, particle2)]
    /\ UNCHANGED <<cm, sim, meas, cli, lat, est, comb, amp>>

\* the members recent_* are dead once the update is finished or cancelled
ReleaseSS(sw) ==
    [sw EXCEPT !.recent_delta = 0,
               !.recent_particle1 = NoParticle,
               !.recent_particle2 = NoParticle]

finished_phialpha(phialpha) ==
    IF phialpha.move_in_progress THEN Amplitude_finish_move(phialpha) ELSE phialpha
cancelled_phialpha(phialpha) ==
    IF phialpha.move_in_progress THEN Amplitude_cancel_move(phialpha) ELSE phialpha

FinishUpdateCall ==
    /\ finish_update_asserts(walk.swapped_system)
    /\ walk' = [phialpha1 |-> finished_phialpha(walk.phialpha1),
                phialpha2 |-> finished_phialpha(walk.phialpha2),
                swapped_system |-> ReleaseSS(finish_update(walk.swapped_system)),
                pairing_index1 |-> -2, pairing_index2 |-> -2]
    /\ UNCHANGED <<cm, sim, meas, cli, lat, est, comb, amp>>

CancelUpdateCall ==
    /\ cancel_update_asserts(walk.swapped_system)
    /\ walk' = [phialpha1 |-> cancelled_phialpha(walk.phialpha1),
                phialpha2 |-> cancelled_phialpha(walk.phialpha2),
                swapped_system |-> ReleaseSS(cancel_update(walk.swapped_system)),
                pairing_index1 |-> -2, pairing_index2 |-> -2]
    /\ UNCHANGED <<cm, sim, meas, cli, lat, est, comb, amp>>

\* Between two transitions the walk's SwappedSystem is copied (the copy
\* shares both phibeta handles with it), and a copy is destroyed (its handles
\* are released).
CopySwappedSystemCall ==
    /\ walk.swapped_system.current_state = "READY"
    /\ walk.swapped_system.phibeta1_unique \/ walk.swapped_system.phibeta2_unique
    /\ walk' = [walk EXCEPT !.swapped_system.phibeta1_unique = FALSE,
                            !.swapped_system.phibeta2_unique = FALSE]
    /\ UNCHANGED <<cm, sim, meas, cli, lat, est, comb, amp>>

DestroyCopyCall ==
    /\ walk.swapped_system.current_state = "READY"
    /\ ~walk.swapped_system.phibeta1_unique \/ ~walk.swapped_system.phibeta2_unique
    /\ walk' = [walk EXCEPT !.swapped_system.phibeta1_unique = TRUE,
                            !.swapped_system.phibeta2_unique = TRUE]
    /\ UNCHANGED <<cm, sim, meas, cli, lat, est, comb, amp>>

NextSS ==
    \/ InitializeCall
    \/ UpdateCall
    \/ FinishUpdateCall
    \/ CancelUpdateCall
    \/ CopySwappedSystemCall
    \/ DestroyCopyCall

SpecSS == InitSS /\ [][NextSS]_vars

----------------------------------------------------------------------------
(* Properties of the engine, checked under SpecCM *)

InProgressStates ==
    {"ROW_UPDATE_IN_PROGRESS", "COLUMN_UPDATE_IN_PROGRESS",
     "COLUMNS_UPDATE_IN_PROGRESS", "ROWCOL_UPDATE_IN_PROGRESS"}

\* the finish_* and the cancel_* that match the update outstanding on e
finish_pending(e) ==
    CASE e.current_state = "ROW_UPDATE_IN_PROGRESS" -> finish_row_update(e)
      [] e.current_state = "COLUMN_UPDATE_IN_PROGRESS" -> finish_column_update(e)
      [] e.current_state = "COLUMNS_UPDATE_IN_PROGRESS" -> finish_columns_update(e)
      [] e.current_state = "ROWCOL_UPDATE_IN_PROGRESS" -> finish_rows_and_columns_update(e)
cancel_pending(e) ==
    CASE e.current_state = "ROW_UPDATE_IN_PROGRESS" -> cancel_row_update(e)
      [] e.current_state = "COLUMN_UPDATE_IN_PROGRESS" -> cancel_column_update(e)
      [] e.current_state = "COLUMNS_UPDATE_IN_PROGRESS" -> cancel_columns_update(e)
      [] e.current_state = "ROWCOL_UPDATE_IN_PROGRESS" -> cancel_rows_and_columns_update(e)

\* the number of rows and columns the outstanding update replaces
replaced_count(e) ==
    CASE e.current_state = "ROW_UPDATE_IN_PROGRESS" -> 1
      [] e.current_state = "COLUMN_UPDATE_IN_PROGRESS" -> 1
      [] e.current_state = "COLUMNS_UPDATE_IN_PROGRESS" -> Len(e.pending_col_indices)
      [] e.current_state = "ROWCOL_UPDATE_IN_PROGRESS" ->
            Len(e.pending_row_indices) + Len(e.pending_col_indices)

\* a step that is one of the update_* calls
UpdateStep ==
    /\ cm.current_state = "READY_FOR_UPDATE"
    /\ cm'.current_state \in InProgressStates

\* Whether a call is permitted depends on the shape of its arguments and not
\* on the values in them: these are the well-formed calls with constant data.
ConstVectors == {[i \in Indices |-> v] : v \in NewVals}
ConstMatrices == {[i \in Indices |-> vec] : vec \in ConstVectors}
ColumnPairLists == {[i \in 1..Len(l) |-> <<l[i], i>>] : l \in IndexLists \ {<<>>}}
RowColLists == {rc \in ShortIndexLists \X ShortIndexLists : Len(rc[1]) + Len(rc[2]) > 0}

update_row_permitted(e) ==
    \E r \in Indices, row \in ConstVectors : update_row_asserts(e, r, row)
update_column_permitted(e) ==
    \E c \in Indices, col \in ConstVectors : update_column_asserts(e, c, col)
update_columns_permitted(e) ==
    \E cols \in ColumnPairLists, srcmat \in ConstMatrices :
        update_columns_asserts(e, cols, srcmat)
update_rows_and_columns_permitted(e) ==
    \E rc \in RowColLists, srcmat \in ConstMatrices :
        update_rows_and_columns_asserts(e, rc[1], rc[2], srcmat)
swap_rows_permitted(e) == \E r1, r2 \in Indices : swap_rows_asserts(e, r1, r2)
swap_columns_permitted(e) == \E c1, c2 \in Indices : swap_columns_asserts(e, c1, c2)
any_update_permitted(e) ==
    \/ update_row_permitted(e)
    \/ update_column_permitted(e)
    \/ update_columns_permitted(e)
    \/ update_rows_and_columns_permitted(e)

\* the finish_* and cancel_* calls the assertions permit on e
finish_cancel_permitted(e) ==
    {k \in InProgressStates :
        \/ k = "ROW_UPDATE_IN_PROGRESS"
             /\ (finish_row_update_asserts(e) \/ cancel_row_update_asserts(e))
        \/ k = "COLUMN_UPDATE_IN_PROGRESS"
             /\ (finish_column_update_asserts(e) \/ cancel_column_update_asserts(e))
        \/ k = "COLUMNS_UPDATE_IN_PROGRESS"
             /\ (finish_columns_update_asserts(e) \/ cancel_columns_update_asserts(e))
        \/ k = "ROWCOL_UPDATE_IN_PROGRESS"
             /\ (finish_rows_and_columns_update_asserts(e)
                   \/ cancel_rows_and_columns_update_asserts(e))}

\* C1: update_row, update_column, update_columns and update_rows_and_columns
\* are permitted only in READY and move the engine to the in-progress state of
\* their kind; in an in-progress state the finish_* and the cancel_* of that
\* kind are the only calls permitted among swap_*, refresh_state, update_*,
\* finish_* and cancel_*, and both return the engine to READY; none of these
\* calls is permitted on a default-constructed engine.
C1_StateMachineProtocol ==
    /\ cm.current_state = "UNINITIALIZED" =>
          /\ ~any_update_permitted(cm)
          /\ ~swap_rows_permitted(cm) /\ ~swap_columns_permitted(cm)
          /\ ~refresh_state_asserts(cm)
          /\ finish_cancel_permitted(cm) = {}
    /\ cm.current_state = "READY_FOR_UPDATE" =>
          /\ finish_cancel_permitted(cm) = {}
          /\ \A r \in Indices, row \in ConstVectors :
                /\ update_row_asserts(cm, r, row)
                /\ update_row(cm, r, row).current_state = "ROW_UPDATE_IN_PROGRESS"
                /\ update_column_asserts(cm, r, row)
                /\ update_column(cm, r, row).current_state = "COLUMN_UPDATE_IN_PROGRESS"
          /\ \A cols \in ColumnPairLists, srcmat \in ConstMatrices :
                /\ update_columns_asserts(cm, cols, srcmat)
                /\ update_columns(cm, cols, srcmat).current_state
                      = "COLUMNS_UPDATE_IN_PROGRESS"
          /\ \A rc \in RowColLists, srcmat \in ConstMatrices :
                /\ update_rows_and_columns_asserts(cm, rc[1], rc[2], srcmat)
                /\ update_rows_and_columns(cm, rc[1], rc[2], srcmat).current_state
                      = "ROWCOL_UPDATE_IN_PROGRESS"
    /\ cm.current_state \in InProgressStates =>
          /\ ~any_update_permitted(cm)
          /\ ~swap_rows_permitted(cm) /\ ~swap_columns_permitted(cm)
          /\ ~refresh_state_asserts(cm)
          /\ finish_cancel_permitted(cm) = {cm.current_state}
          /\ finish_pending(cm).current_state = "READY_FOR_UPDATE"
          /\ cancel_pending(cm).current_state = "READY_FOR_UPDATE"

\* an update is outstanding and swap_rows is rejected for every pair of rows
C1_Witness ==
    /\ cm.current_state = "ROWCOL_UPDATE_IN_PROGRESS"
    /\ ~swap_rows_permitted(cm)
    /\ finish_cancel_permitted(cm) = {"ROWCOL_UPDATE_IN_PROGRESS"}

\* C2: for each of the four update kinds and every READY engine, update_*
\* followed at once by the matching cancel_* leaves the matrix, the
\* determinant, the stored inverse, nullity_lower_bound and current_state
\* equal to their values before the update.
C2_CancelRestores ==
    [][UpdateStep =>
          LET c == cancel_pending(cm')
          IN  /\ c.mat = cm.mat
              /\ c.det = cm.det
              /\ c.invmat = cm.invmat
              /\ c.nullity_lower_bound = cm.nullity_lower_bound
              /\ c.current_state = cm.current_state]_vars

\* an update of a row and of a column that changed the cell where they meet
\* is outstanding, and cancelling it changes the matrix back
C2_Witness ==
    /\ cm.current_state = "ROWCOL_UPDATE_IN_PROGRESS"
    /\ Len(cm.pending_row_indices) = 1
    /\ Len(cm.pending_col_indices) = 1
    /\ LET r == cm.pending_row_indices[1]
           c == cm.pending_col_indices[1]
       IN  cancel_rows_and_columns_update(cm).mat[r][c] # cm.mat[r][c]

\* an update recomputed the inverse from scratch, and is then cancelled
C2_WitnessRecomputed ==
    /\ cm.current_state \in InProgressStates
    /\ cm.inverse_recalculated_for_current_update
    /\ cm.new_nullity_lower_bound = 0

\* While an update is outstanding, nullity_lower_bound and invmat are those of
\* before the update, and the matrix of before the update is the one the
\* rollback storage restores (C2).
pre_update_mat(e) == cancel_pending(e).mat

\* the fields of the engine that refresh_state writes
det_inverse_nullity(e) == <<e.det, e.invmat, e.nullity_lower_bound>>

\* what "equal to the state refresh_state would produce" asks of a READY
\* engine f whose matrix is non-singular
matches_refresh_state(f) ==
    /\ f.current_state = "READY_FOR_UPDATE"
    /\ f.det = Big_from(Determinant(f.mat))
    /\ f.nullity_lower_bound = 0
    /\ MatMul(f.mat, f.invmat) = Identity(NRows(f.mat))
    /\ det_inverse_nullity(f) = det_inverse_nullity(refresh_state(f))

\* C3: from a READY engine whose matrix is non-singular, after any update_*
\* followed by its finish_*, if the new matrix is non-singular then the stored
\* determinant is det(M), the stored inverse is the inverse of M, and the
\* engine equals what refresh_state would produce.
C3_FinishMatchesRefresh ==
    (/\ cm.current_state \in InProgressStates
     /\ Rank(pre_update_mat(cm)) = NRows(cm.mat)
     /\ Rank(cm.mat) = NRows(cm.mat))
        => matches_refresh_state(finish_pending(cm))

\* the same property, for the engines that record their matrix as
\* non-singular: every update then takes the Sherman-Morrison-Woodbury path
C3_ClosedFormPath ==
    (/\ cm.current_state \in InProgressStates
     /\ cm.nullity_lower_bound = 0
     /\ Rank(cm.mat) = NRows(cm.mat))
        => /\ ~cm.inverse_recalculated_for_current_update
           /\ matches_refresh_state(finish_pending(cm))

\* what a recomputation from scratch during an update leaves in the engine
recomputed_from_scratch(e) ==
    LET rank == Rank(e.mat)
    IN  /\ e.inverse_recalculated_for_current_update
        /\ e.new_nullity_lower_bound = NCols(e.mat) - rank
        /\ IF rank = NCols(e.mat)
           THEN /\ e.det = Big_from(Determinant(e.mat))
                /\ MatMul(e.mat, e.new_invmat) = Identity(NRows(e.mat))
           ELSE Big_is_zero(e.det)

\* C4: an update_* of an engine with nullity_lower_bound = k > 0 that replaces
\* r rows and columns in total makes the pending nullity bound k - r; if that
\* is <= 0 the determinant, the inverse and the pending nullity are recomputed
\* from scratch, otherwise the determinant stays zero and nothing is
\* recomputed.
C4_SingularUpdateRule ==
    (cm.current_state \in InProgressStates /\ cm.nullity_lower_bound > 0) =>
        LET k == cm.nullity_lower_bound
            r == replaced_count(cm)
        IN  IF k - r <= 0
            THEN recomputed_from_scratch(cm)
            ELSE /\ cm.new_nullity_lower_bound = k - r
                 /\ Big_is_zero(cm.det)
                 /\ ~cm.inverse_recalculated_for_current_update

\* C5: in every READY state nullity_lower_bound is >= 0 and at most the
\* nullity of the matrix; nullity_lower_bound > 0 implies the matrix is
\* singular.
C5_NullityIsLowerBound ==
    cm.current_state = "READY_FOR_UPDATE" =>
        /\ cm.nullity_lower_bound >= 0
        /\ NCols(cm.mat) - Rank(cm.mat) >= cm.nullity_lower_bound
        /\ cm.nullity_lower_bound > 0 => Rank(cm.mat) < NCols(cm.mat)

\* the part of C5 the code keeps
C5_NullityNonNegative ==
    cm.current_state = "READY_FOR_UPDATE" => cm.nullity_lower_bound >= 0

\* C6: if an update makes a non-singular matrix singular, the tentative
\* determinant is zero during the update and, after finish_*, is_singular()
\* is true, nullity_lower_bound > 0 and get_inverse is rejected; get_inverse
\* is permitted only in READY with nullity_lower_bound = 0.
C6_SingularAfterUpdate ==
    /\ get_inverse_asserts(cm) =>
          cm.current_state = "READY_FOR_UPDATE" /\ cm.nullity_lower_bound = 0
    /\ (/\ cm.current_state \in InProgressStates
        /\ Rank(pre_update_mat(cm)) = NRows(cm.mat)
        /\ Rank(cm.mat) < NRows(cm.mat))
          => /\ get_determinant_asserts(cm)
             /\ Big_is_zero(cm.det)
             /\ LET f == finish_pending(cm)
                IN  /\ is_singular_asserts(f)
                    /\ is_singular(f)
                    /\ f.nullity_lower_bound > 0
                    /\ ~get_inverse_asserts(f)

\* update_row has replaced a row of a matrix of full rank by a copy of
\* another of its rows
C6_Witness ==
    /\ cm.current_state = "ROW_UPDATE_IN_PROGRESS"
    /\ cm.nullity_lower_bound = 0
    /\ Rank(pre_update_mat(cm)) = NRows(cm.mat)
    /\ \E r \in Indices : r # cm.pending_index /\ cm.mat[r] = cm.mat[cm.pending_index]

\* C7: swap_rows(i, j) and swap_columns(i, j), i # j, are permitted in READY
\* only; they exchange the two rows (columns) of M and, when
\* nullity_lower_bound = 0, the two columns (rows) of the stored inverse, which
\* is then the inverse of the swapped matrix; they negate the determinant and
\* keep its magnitude, leave current_state and nullity_lower_bound alone, and
\* the same swap applied twice restores M, the inverse and the determinant.
C7_SwapSemantics ==
    /\ (swap_rows_permitted(cm) \/ swap_columns_permitted(cm))
          => cm.current_state = "READY_FOR_UPDATE"
    /\ cm.current_state = "READY_FOR_UPDATE" =>
          \A i, j \in Indices : i # j =>
             LET sr == swap_rows(cm, i, j)
                 sc == swap_columns(cm, i, j)
                 others == Indices \ {i, j}
             IN  /\ swap_rows_asserts(cm, i, j) /\ swap_columns_asserts(cm, i, j)
                 /\ Row(sr.mat, i) = Row(cm.mat, j) /\ Row(sr.mat, j) = Row(cm.mat, i)
                 /\ \A k \in others : Row(sr.mat, k) = Row(cm.mat, k)
                 /\ Col(sc.mat, i) = Col(cm.mat, j) /\ Col(sc.mat, j) = Col(cm.mat, i)
                 /\ \A k \in others : Col(sc.mat, k) = Col(cm.mat, k)
                 /\ sr.det = RNeg(cm.det) /\ RAbs(sr.det) = RAbs(cm.det)
                 /\ sc.det = RNeg(cm.det) /\ RAbs(sc.det) = RAbs(cm.det)
                 /\ sr.current_state = cm.current_state
                 /\ sc.current_state = cm.current_state
                 /\ sr.nullity_lower_bound = cm.nullity_lower_bound
                 /\ sc.nullity_lower_bound = cm.nullity_lower_bound
                 /\ cm.nullity_lower_bound = 0 =>
                       /\ Col(sr.invmat, i) = Col(cm.invmat, j)
                       /\ Col(sr.invmat, j) = Col(cm.invmat, i)
                       /\ \A k \in others : Col(sr.invmat, k) = Col(cm.invmat, k)
                       /\ Row(sc.invmat, i) = Row(cm.invmat, j)
                       /\ Row(sc.invmat, j) = Row(cm.invmat, i)
                       /\ \A k \in others : Row(sc.invmat, k) = Row(cm.invmat, k)
                       /\ MatMul(sr.mat, sr.invmat) = Identity(NRows(cm.mat))
                       /\ MatMul(sc.mat, sc.invmat) = Identity(NRows(cm.mat))
                 /\ LET srr == swap_rows(sr, i, j)
                        scc == swap_columns(sc, i, j)
                    IN  /\ srr.mat = cm.mat /\ srr.det = cm.det /\ srr.invmat = cm.invmat
                        /\ scc.mat = cm.mat /\ scc.det = cm.det /\ scc.invmat = cm.invmat

\* a READY engine of a non-singular matrix of determinant -2 on which the
\* swaps are permitted, with an inverse that is not symmetric: swap_rows
\* makes the determinant 2 and leaves another inverse than swap_columns
C7_Witness ==
    /\ cm.current_state = "READY_FOR_UPDATE"
    /\ cm.nullity_lower_bound = 0
    /\ cm.det = Rat(-2)
    /\ cm.invmat[1][2] # cm.invmat[2][1]
    /\ swap_rows_asserts(cm, 1, 2) /\ swap_columns_asserts(cm, 1, 2)
    /\ swap_rows(cm, 1, 2).det = Rat(2)
    /\ swap_rows(cm, 1, 2).invmat # swap_columns(cm, 1, 2).invmat

----------------------------------------------------------------------------
(* Properties of the SwappedSystem, checked under SpecSS *)

SeqToSet(vec) == {vec[k] : k \in 1..Len(vec)}
has_no_duplicates(vec) == \A j, k \in 1..Len(vec) : j # k => vec[j] # vec[k]

\* the positions of copy 1 after the exchange, for every species and every
\* slot k, of the position of particle c1[species][k] of copy 1 with that of
\* particle c2[species][k] of copy 2; own is r1, other is r2 (and the reverse
\* for the positions of copy 2)
exchanged(own, other, c_own, c_other) ==
    [species \in 1..Len(own) |->
        [i \in 1..Len(own[species]) |->
            IF \E k \in 1..Len(c_own[species]) : c_own[species][k] = i
            THEN other[species][c_other[species][
                     CHOOSE k \in 1..Len(c_own[species]) : c_own[species][k] = i]]
            ELSE own[species][i]]]

\* the phibetas of sw hold the exchanged positions of r1 and r2
phibetas_are_swap_of(sw, r1, r2) ==
    /\ sw.phibeta1.r = exchanged(r1, r2, sw.copy1_subsystem_indices,
                                 sw.copy2_subsystem_indices)
    /\ sw.phibeta2.r = exchanged(r2, r1, sw.copy2_subsystem_indices,
                                 sw.copy1_subsystem_indices)

\* the pairing lists of sw are those of the positions r1 and r2
lists_match_positions(sw, r1, r2) ==
    \A species \in 1..Len(r1) :
        LET c1_s == sw.copy1_subsystem_indices[species]
            c2_s == sw.copy2_subsystem_indices[species]
        IN  /\ Len(c1_s) = Len(c2_s)
            /\ has_no_duplicates(c1_s)
            /\ has_no_duplicates(c2_s)
            /\ \A i \in 1..Len(r1[species]) :
                  /\ i \in SeqToSet(c1_s) <=> position_is_within(r1[species][i])
                  /\ i \in SeqToSet(c2_s) <=> position_is_within(r2[species][i])

\* C8: whenever an initialized SwappedSystem is READY, after any sequence of
\* update+finish_update and update+cancel_update, for every species the two
\* pairing lists have equal length and no duplicate, and hold particle index
\* i exactly when particle i of phialpha1 (resp. phialpha2) is within the
\* subsystem.
C8_PairingLists ==
    walk.swapped_system.current_state = "READY" =>
        lists_match_positions(walk.swapped_system, walk.phialpha1.r, walk.phialpha2.r)

\* READY after updates that left the first species paired crosswise and in
\* an order initialize does not produce
C8_Witness ==
    /\ walk.swapped_system.current_state = "READY"
    /\ walk.swapped_system.copy1_subsystem_indices[1] = <<2, 1>>
    /\ walk.swapped_system.copy2_subsystem_indices[1] = <<1, 2>>

\* C9: after initialize, and after update followed by finish_update (delta
\* = 0 in either copy, delta = +1, delta = -1 with equal or different pairing
\* indices), the position of every particle in phibeta1 and phibeta2 is the
\* one obtained from the phialpha positions by the exchange of the paired
\* particles.
C9_PhibetaPositions ==
    /\ walk.swapped_system.current_state = "READY" =>
          phibetas_are_swap_of(walk.swapped_system, walk.phialpha1.r, walk.phialpha2.r)
    /\ walk.swapped_system.current_state = "UPDATE_IN_PROGRESS" =>
          /\ finish_update_asserts(walk.swapped_system)
          /\ phibetas_are_swap_of(finish_update(walk.swapped_system),
                                  finished_phialpha(walk.phialpha1).r,
                                  finished_phialpha(walk.phialpha2).r)

\* an update with delta = -1 that re-paired is outstanding: the particle
\* leaving copy 1 sat in a later slot than the one leaving copy 2
C9_Witness ==
    /\ walk.swapped_system.current_state = "UPDATE_IN_PROGRESS"
    /\ walk.swapped_system.recent_delta = -1
    /\ walk.pairing_index1 > walk.pairing_index2
    /\ walk.pairing_index2 >= 1

\* a step that is a call of update
UpdateStepSS ==
    /\ walk.swapped_system.current_state = "READY"
    /\ walk'.swapped_system.current_state = "UPDATE_IN_PROGRESS"

\* what C10 asks of c, the SwappedSystem after update and cancel_update,
\* where before is the SwappedSystem before the update, updated the one
\* after it, and r1, r2 the reverted positions of the phialphas
cancel_restores(c, before, updated, r1, r2) ==
    /\ c.current_state = "READY"
    /\ updated.recent_delta = 0 =>
          /\ c.copy1_subsystem_indices = before.copy1_subsystem_indices
          /\ c.copy2_subsystem_indices = before.copy2_subsystem_indices
    /\ updated.recent_delta = 1 =>
          /\ c.copy1_subsystem_indices = before.copy1_subsystem_indices
          /\ c.copy2_subsystem_indices = before.copy2_subsystem_indices
          /\ \A species \in 1..Len(r1) :
                /\ Len(updated.copy1_subsystem_indices[species])
                      >= Len(c.copy1_subsystem_indices[species])
                /\ Len(updated.copy1_subsystem_indices[species])
                      > Len(c.copy1_subsystem_indices[species])
                      <=> species = updated.recent_particle1.species
    /\ updated.recent_delta = -1 =>
          /\ \A species \in 1..Len(r1) :
                /\ SeqToSet(c.copy1_subsystem_indices[species])
                      = SeqToSet(before.copy1_subsystem_indices[species])
                /\ SeqToSet(c.copy2_subsystem_indices[species])
                      = SeqToSet(before.copy2_subsystem_indices[species])
                /\ Len(c.copy1_subsystem_indices[species])
                      = Len(before.copy1_subsystem_indices[species])
                /\ Len(c.copy2_subsystem_indices[species])
                      = Len(before.copy2_subsystem_indices[species])
          /\ LET species == updated.recent_particle1.species
                 c1_s == c.copy1_subsystem_indices[species]
                 c2_s == c.copy2_subsystem_indices[species]
             IN  /\ c1_s[Len(c1_s)] = updated.recent_particle1.index
                 /\ c2_s[Len(c2_s)] = updated.recent_particle2.index
    /\ lists_match_positions(c, r1, r2)
    /\ phibetas_are_swap_of(c, r1, r2)

\* C10: update followed by cancel_update, with the phialphas reverted,
\* restores a consistent swapped system: after delta = +1 the appended
\* entries are popped and both lists are the sequences of before the update;
\* after delta = -1 the two leaving indices are re-appended as the last pair
\* and each list holds the set of indices of before the update; in every case
\* the phibeta positions are the exchange of the reverted phialpha positions
\* under the resulting pairing.
C10_CancelUpdateRestores ==
    [][UpdateStepSS =>
          /\ cancel_update_asserts(walk'.swapped_system)
          /\ cancelled_phialpha(walk'.phialpha1) = walk.phialpha1
          /\ cancelled_phialpha(walk'.phialpha2) = walk.phialpha2
          /\ \A c \in {cancel_update(walk'.swapped_system)} :
                cancel_restores(c, walk.swapped_system, walk'.swapped_system,
                                walk.phialpha1.r, walk.phialpha2.r)]_vars

\* an update with delta = -1 that re-paired is outstanding, the particle
\* leaving copy 1 having sat in an earlier slot than the one leaving copy 2,
\* and its cancel_update leaves the first list in another order than the one
\* of before the re-pairing
C10_Witness ==
    /\ walk.swapped_system.current_state = "UPDATE_IN_PROGRESS"
    /\ walk.swapped_system.recent_delta = -1
    /\ walk.pairing_index1 >= 1
    /\ walk.pairing_index1 < walk.pairing_index2
    /\ cancel_update(walk.swapped_system).copy1_subsystem_indices[
           walk.swapped_system.recent_particle1.species][walk.pairing_index1]
         # walk.swapped_system.recent_particle1.index

\* an update with delta = +1 is outstanding
C10_WitnessEntered ==
    /\ walk.swapped_system.current_state = "UPDATE_IN_PROGRESS"
    /\ walk.swapped_system.recent_delta = 1

\* C11: SwappedSystem never writes to an amplitude that another handle
\* reaches: in every step, a phibeta whose handle is not unique before the
\* step and is not replaced by a clone in it is left as it was, and a phibeta
\* with a move outstanding, the one finish_update and cancel_update write to,
\* is uniquely owned.
C11_CopyOnWrite ==
    [][/\ (~walk.swapped_system.phibeta1_unique /\ ~walk'.swapped_system.phibeta1_unique)
            => walk'.swapped_system.phibeta1 = walk.swapped_system.phibeta1
       /\ (~walk.swapped_system.phibeta2_unique /\ ~walk'.swapped_system.phibeta2_unique)
            => walk'.swapped_system.phibeta2 = walk.swapped_system.phibeta2
       /\ walk'.swapped_system.phibeta1_dirty => walk'.swapped_system.phibeta1_unique
       /\ walk'.swapped_system.phibeta2_dirty => walk'.swapped_system.phibeta2_unique]_vars

\* an update that moved phibeta1 is outstanding on a SwappedSystem that still
\* shares phibeta2 with a copy: phibeta1 was replaced by a clone
C11_Witness ==
    /\ walk.swapped_system.current_state = "UPDATE_IN_PROGRESS"
    /\ walk.swapped_system.phibeta1_dirty /\ walk.swapped_system.phibeta1_unique
    /\ ~walk.swapped_system.phibeta2_dirty /\ ~walk.swapped_system.phibeta2_unique

\* C12: finish_update and cancel_update are total after any legal update: a
\* phibeta is dirty exactly when perform_move was called on it in the
\* outstanding update, finish_move (cancel_move) is applied to the dirty
\* phibetas and leaves the others as they are, and both dirty flags are false
\* whenever the SwappedSystem is READY.
C12_DirtyFlagDiscipline ==
    \A sw \in {walk.swapped_system} :
       /\ sw.current_state # "UPDATE_IN_PROGRESS" =>
             /\ ~sw.phibeta1_dirty /\ ~sw.phibeta2_dirty
             /\ ~sw.phibeta1.move_in_progress /\ ~sw.phibeta2.move_in_progress
       /\ sw.current_state = "UPDATE_IN_PROGRESS" =>
             /\ sw.phibeta1_dirty = sw.phibeta1.move_in_progress
             /\ sw.phibeta2_dirty = sw.phibeta2.move_in_progress
             /\ finish_update_asserts(sw)
             /\ cancel_update_asserts(sw)
             /\ \A f \in {finish_update(sw), cancel_update(sw)} :
                   /\ ~f.phibeta1.move_in_progress /\ ~f.phibeta2.move_in_progress
                   /\ ~f.phibeta1_dirty /\ ~f.phibeta2_dirty
                   /\ ~sw.phibeta1_dirty => f.phibeta1 = sw.phibeta1
                   /\ ~sw.phibeta2_dirty => f.phibeta2 = sw.phibeta2

\* an update that moved phibeta1 and not phibeta2 is outstanding
C12_Witness ==
    /\ walk.swapped_system.current_state = "UPDATE_IN_PROGRESS"
    /\ walk.swapped_system.phibeta1_dirty
    /\ walk.swapped_system.phibeta1.move_in_progress
    /\ ~walk.swapped_system.phibeta2_dirty

\* an update with no moving particle is outstanding
C12_WitnessNoMove ==
    /\ walk.swapped_system.current_state = "UPDATE_IN_PROGRESS"
    /\ ~walk.swapped_system.phibeta1_dirty /\ ~walk.swapped_system.phibeta2_dirty
    /\ ~walk.phialpha1.move_in_progress /\ ~walk.phialpha2.move_in_progress

\* the calls of update that the assertions permit on sw with the phialphas
\* as they are
update_permitted(sw, phialpha1, phialpha2) ==
    \E particle1, particle2 \in AllParticles \cup {NoParticle} :
        update_asserts(sw, particle1, particle2, phialpha1, phialpha2)

\* C13: initialize is accepted only in UNINITIALIZED and leads to READY,
\* update is accepted only in READY and leads to UPDATE_IN_PROGRESS,
\* finish_update and cancel_update are accepted only in UPDATE_IN_PROGRESS and
\* lead to READY, so that every update is followed by one finish_update or
\* cancel_update before the next update.
C13_SwappedSystemProtocol ==
    \A sw \in {walk.swapped_system} :
       /\ sw.current_state = "UNINITIALIZED" =>
             /\ initialize_asserts(sw, walk.phialpha1, walk.phialpha2)
             /\ initialize(sw, walk.phialpha1, walk.phialpha2).current_state = "READY"
             /\ ~update_permitted(sw, walk.phialpha1, walk.phialpha2)
             /\ ~finish_update_asserts(sw) /\ ~cancel_update_asserts(sw)
       /\ sw.current_state = "READY" =>
             /\ ~initialize_asserts(sw, walk.phialpha1, walk.phialpha2)
             /\ update_asserts(sw, NoParticle, NoParticle, walk.phialpha1, walk.phialpha2)
             /\ update(sw, NoParticle, NoParticle, walk.phialpha1,
                       walk.phialpha2).current_state = "UPDATE_IN_PROGRESS"
             /\ ~finish_update_asserts(sw) /\ ~cancel_update_asserts(sw)
       /\ sw.current_state = "UPDATE_IN_PROGRESS" =>
             /\ ~initialize_asserts(sw, walk.phialpha1, walk.phialpha2)
             /\ ~update_permitted(sw, walk.phialpha1, walk.phialpha2)
             /\ finish_update_asserts(sw) /\ cancel_update_asserts(sw)
             /\ finish_update(sw).current_state = "READY"
             /\ cancel_update(sw).current_state = "READY"

\* an update is outstanding: update and initialize are rejected, and
\* finish_update is accepted
C13_Witness ==
    /\ walk.swapped_system.current_state = "UPDATE_IN_PROGRESS"
    /\ walk.swapped_system.recent_delta = 1
    /\ ~update_permitted(walk.swapped_system, walk.phialpha1, walk.phialpha2)
    /\ ~initialize_asserts(walk.swapped_system, walk.phialpha1, walk.phialpha2)
    /\ finish_update_asserts(walk.swapped_system)

\* ------------------------------------------------------------------------
\* MetropolisSimulation: the driver of a walk and its measurements
\* ------------------------------------------------------------------------

\* the number of measurements in the driver's list
NMeasurements == 2
\* the largest number of initialization sweeps a driver is constructed with
MaxInitSweeps == 2
\* the largest number of sweeps one call of iterate asks for
MaxSweeps == 3
\* the largest number of steps the walk is asked for, over the constructor
\* and all calls of iterate
MaxSteps == 5

\* a probability_t is a pair <<numerator, denominator>> with a denominator
\* that is positive, or zero for the infinities; NaN is <<0, 0>>
NaN == <<0, 0>>
prob_is_nan(p) == p[1] = 0 /\ p[2] = 0
\* a >= b and a > b of IEEE arithmetic: false whenever an operand is NaN
prob_ge(a, b) == ~prob_is_nan(a) /\ ~prob_is_nan(b) /\ a[1] * b[2] >= b[1] * a[2]
prob_gt(a, b) == ~prob_is_nan(a) /\ ~prob_is_nan(b) /\ a[1] * b[2] > b[1] * a[2]
prob_eq(a, b) == ~prob_is_nan(a) /\ ~prob_is_nan(b) /\ a[1] * b[2] = b[1] * a[2]
ProbZero == <<0, 1>>
ProbOne == <<1, 1>>

\* the ratios a walk returns, and the draws of random_uniform01, in [0, 1)
Ratios == {NaN, <<-1, 1>>, <<-1, 2>>, ProbZero, <<1, 2>>, ProbOne, <<2, 1>>, <<1, 0>>}
Uniforms == {<<0, 1>>, <<1, 2>>, <<3, 4>>}
\* the probability_ratio of a driver that has computed none yet
NoRatio == <<>>

\* the walk as the driver sees it: whether a transition is outstanding, and
\* how often each of its three operations has been called
InitialWalk ==
    [transition_in_progress |-> FALSE, n_compute |-> 0, n_accept |-> 0,
     n_reject |-> 0]

Walk_compute_probability_ratio_asserts(w) == ~w.transition_in_progress
Walk_compute_probability_ratio_of_random_transition(w) ==
    [w EXCEPT !.transition_in_progress = TRUE, !.n_compute = @ + 1]
Walk_finish_asserts(w) == w.transition_in_progress
Walk_accept_transition(w) ==
    [w EXCEPT !.transition_in_progress = FALSE, !.n_accept = @ + 1]
Walk_reject_transition(w) ==
    [w EXCEPT !.transition_in_progress = FALSE, !.n_reject = @ + 1]

\* a measurement as the driver sees it: how often each of its three entry
\* points has been called, and which one was called last
InitialMeasurement ==
    [initialized |-> 0, advanced |-> 0, repeated |-> 0, last |-> "none"]
Measurement_initialize(ms) ==
    [ms EXCEPT !.initialized = @ + 1, !.last = "initialize"]
Measurement_step_advanced(ms) ==
    [ms EXCEPT !.advanced = @ + 1, !.last = "step_advanced"]
Measurement_step_repeated(ms) ==
    [ms EXCEPT !.repeated = @ + 1, !.last = "step_repeated"]
Measurement_calls(ms) == ms.advanced + ms.repeated

\* the driver as its member initializers leave it, about to run
\* perform_initialization(initialization_sweeps)
MetropolisSimulation(initialization_sweeps) ==
    [m_steps |-> 0,
     m_steps_accepted |-> 0,
     m_steps_fully_rejected |-> 0,
     walk |-> InitialWalk,
     measurements |-> [k \in 1..NMeasurements |-> InitialMeasurement],
     measurement_not_yet_updated |-> TRUE,
     \* position: the function that is running, and where it stands
     caller |-> "constructor",
     pc |-> IF initialization_sweeps > 0 THEN "step" ELSE "initialize",
     i |-> 0,
     sweeps |-> initialization_sweeps,
     m |-> 1,
     \* locals of perform_single_step and iterate
     probability_ratio |-> NoRatio,
     uniform_draws |-> <<>>,
     accepted |-> FALSE,
     \* history: the argument of the constructor, the number of steps that
    \* have raised invalid_probability_error, and m_steps and each
     \* measurement's number of step calls when the current iterate was entered
     initialization_sweeps |-> initialization_sweeps,
     n_thrown |-> 0,
     entry_steps |-> 0,
     entry_calls |-> [k \in 1..NMeasurements |-> 0]]

\* whether the test of line 90-91 evaluates random_uniform01
draws_uniform(probability_ratio) ==
    ~prob_ge(probability_ratio, ProbOne) /\ prob_gt(probability_ratio, ProbZero)

\* the test of line 75
probability_is_invalid(probability_ratio) == ~prob_ge(probability_ratio, ProbZero)

\* an acceptance test that also accepts a ratio equal to the draw
transition_is_accepted_on_equality(probability_ratio, u) ==
    \/ prob_ge(probability_ratio, ProbOne)
    \/ /\ prob_gt(probability_ratio, ProbZero)
       /\ prob_ge(probability_ratio, u)

\* the test of lines 90-91, with u the draw when one is made
transition_is_accepted(probability_ratio, u) ==
    \/ prob_ge(probability_ratio, ProbOne)
    \/ /\ prob_gt(probability_ratio, ProbZero)
       /\ prob_gt(probability_ratio, u)

\* the counting of lines 105-106
counts_as_fully_rejected(probability_ratio) == prob_eq(probability_ratio, ProbZero)

\* an invalid-probability branch that raises the error at once
perform_single_step_invalid_without_reject(s) == [s EXCEPT !.pc = "thrown"]

\* an invalid-probability branch that counts the step
perform_single_step_invalid_counted(s) ==
    [s EXCEPT !.walk = Walk_reject_transition(@), !.m_steps = @ + 1, !.pc = "thrown"]

\* lines 75-82: the walk is restored and the error raised
perform_single_step_invalid(s) ==
    [s EXCEPT !.walk = Walk_reject_transition(@), !.pc = "thrown"]

\* a step that leaves a rejected transition outstanding on the walk
perform_single_step_valid_without_reject(s, u) ==
    IF transition_is_accepted(s.probability_ratio, u)
    THEN [s EXCEPT !.m_steps = @ + 1,
                   !.walk = Walk_accept_transition(@),
                   !.m_steps_accepted = @ + 1,
                   !.accepted = TRUE]
    ELSE [s EXCEPT !.m_steps = @ + 1,
                   !.m_steps_fully_rejected =
                       IF counts_as_fully_rejected(s.probability_ratio)
                       THEN @ + 1 ELSE @,
                   !.accepted = FALSE]

\* lines 84-109 of perform_single_step, after the ratio has been computed;
\* the result is in the field accepted
perform_single_step_valid(s, u) ==
    IF transition_is_accepted(s.probability_ratio, u)
    THEN [s EXCEPT !.m_steps = @ + 1,
                   !.walk = Walk_accept_transition(@),
                   !.m_steps_accepted = @ + 1,
                   !.accepted = TRUE]
    ELSE [s EXCEPT !.m_steps = @ + 1,
                   !.walk = Walk_reject_transition(@),
                   !.m_steps_fully_rejected =
                       IF counts_as_fully_rejected(s.probability_ratio)
                       THEN @ + 1 ELSE @,
                   !.accepted = FALSE]

\* a loop of perform_initialization that runs one step too many
perform_initialization_next_one_more(s) ==
    [s EXCEPT !.i = @ + 1,
              !.pc = IF s.i + 1 <= s.sweeps THEN "step" ELSE "initialize",
              !.m = 1]

\* the loop of perform_initialization after one of its steps has returned
perform_initialization_next(s) ==
    [s EXCEPT !.i = @ + 1,
              !.pc = IF s.i + 1 < s.sweeps THEN "step" ELSE "initialize",
              !.m = 1]

\* iterate after its step has returned: the measurements come next
iterate_after_step(s) == [s EXCEPT !.pc = "measure", !.m = 1]

\* a test that looks at the outcome of the step only
delivers_step_advanced_if_accepted(s) == s.accepted

\* the test of line 58
delivers_step_advanced(s) == s.accepted \/ s.measurement_not_yet_updated

\* a loop over the measurements that ends after the first of them
iterate_measure_first_only(s) ==
    LET advanced == delivers_step_advanced(s)
    IN  [s EXCEPT !.measurements[s.m] =
                      IF advanced THEN Measurement_step_advanced(@)
                                  ELSE Measurement_step_repeated(@),
                  !.m = 1,
                  !.measurement_not_yet_updated = IF advanced THEN FALSE ELSE @,
                  !.i = @ + 1,
                  !.pc = IF s.i + 1 < s.sweeps THEN "step" ELSE "idle"]

\* one pass of the loop of lines 59-60 or 63-64 on measurement s.m; after the
\* last one line 61 clears the flag and the loop of iterate goes on
iterate_measure(s) ==
    LET advanced == delivers_step_advanced(s)
        last == s.m = NMeasurements
    IN  [s EXCEPT !.measurements[s.m] =
                      IF advanced THEN Measurement_step_advanced(@)
                                  ELSE Measurement_step_repeated(@),
                  !.m = IF last THEN 1 ELSE @ + 1,
                  !.measurement_not_yet_updated = IF last /\ advanced THEN FALSE ELSE @,
                  !.i = IF last THEN @ + 1 ELSE @,
                  !.pc = IF ~last THEN "measure"
                         ELSE IF s.i + 1 < s.sweeps THEN "step" ELSE "idle"]

\* one pass of the loop of lines 117-118 on measurement s.m
perform_initialization_initialize(s) ==
    [s EXCEPT !.measurements[s.m] = Measurement_initialize(@),
              !.m = IF s.m = NMeasurements THEN 1 ELSE @ + 1,
              !.pc = IF s.m = NMeasurements THEN "idle" ELSE "initialize"]

\* entry of iterate(sweeps)
iterate(s, sweeps) ==
    [s EXCEPT !.caller = "iterate",
              !.i = 0,
              !.sweeps = sweeps,
              !.pc = IF sweeps > 0 THEN "step" ELSE "idle",
              !.entry_steps = s.m_steps,
              !.entry_calls = [k \in 1..NMeasurements |->
                                  Measurement_calls(s.measurements[k])]]

\* line 71: the walk proposes a transition and returns its ratio
ComputeRatioStep ==
    /\ sim.pc = "step"
    /\ Walk_compute_probability_ratio_asserts(sim.walk)
    /\ \E p \in Ratios :
          sim' = [sim EXCEPT
                     !.walk = Walk_compute_probability_ratio_of_random_transition(@),
                     !.probability_ratio = p,
                     !.uniform_draws = <<>>,
                     !.pc = "ratio"]
    /\ UNCHANGED <<cm, walk, meas, cli, lat, est, comb, amp>>

\* lines 75-82: the ratio is negative or NaN
InvalidProbabilityStep ==
    /\ sim.pc = "ratio"
    /\ probability_is_invalid(sim.probability_ratio)
    /\ sim' = [perform_single_step_invalid(sim) EXCEPT !.n_thrown = @ + 1]
    /\ UNCHANGED <<cm, walk, meas, cli, lat, est, comb, amp>>

\* lines 84-109, and the return into the loop that called
DecideStep ==
    /\ sim.pc = "ratio"
    /\ ~probability_is_invalid(sim.probability_ratio)
    /\ Walk_finish_asserts(sim.walk)
    /\ \E draws \in IF draws_uniform(sim.probability_ratio)
                    THEN {<<u>> : u \in Uniforms} ELSE {<<>>} :
          \A u \in {IF draws = <<>> THEN NaN ELSE draws[1]} :
          \A s \in {perform_single_step_valid([sim EXCEPT !.uniform_draws = draws], u)} :
             sim' = IF s.caller = "constructor"
                    THEN perform_initialization_next(s)
                    ELSE iterate_after_step(s)
    /\ UNCHANGED <<cm, walk, meas, cli, lat, est, comb, amp>>

\* lines 117-118
InitializeMeasurementStep ==
    /\ sim.pc = "initialize"
    /\ sim' = perform_initialization_initialize(sim)
    /\ UNCHANGED <<cm, walk, meas, cli, lat, est, comb, amp>>

\* lines 58-65
MeasureStep ==
    /\ sim.pc = "measure"
    /\ sim' = iterate_measure(sim)
    /\ UNCHANGED <<cm, walk, meas, cli, lat, est, comb, amp>>

\* a call of iterate on a constructed driver: one that is idle, or one whose
\* last iterate raised the error, which the caller caught
IterateCall ==
    /\ sim.pc = "idle" \/ (sim.pc = "thrown" /\ sim.caller = "iterate")
    /\ \E sweeps \in 1..MaxSweeps :
          /\ sim.walk.n_compute + sweeps <= MaxSteps
          /\ sim' = iterate(sim, sweeps)
    /\ UNCHANGED <<cm, walk, meas, cli, lat, est, comb, amp>>

InitMS ==
    /\ cli = NoCli /\ lat = NoLat /\ est = NoEst
    /\ comb = NoComb /\ amp = NoAmp
    /\ cm = DefaultEngine
    /\ walk = NoWalk
    /\ meas = NoMeas
    /\ \E initialization_sweeps \in 0..MaxInitSweeps :
          sim = MetropolisSimulation(initialization_sweeps)

NextMS ==
    \/ ComputeRatioStep
    \/ InvalidProbabilityStep
    \/ DecideStep
    \/ InitializeMeasurementStep
    \/ MeasureStep
    \/ IterateCall

SpecMS == InitMS /\ [][NextMS]_vars

\* ------------------------------------------------------------------------
\* Claims about the MetropolisSimulation driver
\* ------------------------------------------------------------------------

\* C14: a step whose ratio p is valid (p >= 0, not NaN) is accepted exactly
\* when p >= 1, or p > 0 and p exceeds the uniform draw; a step with p = 0 is
\* rejected without an error and is the only kind of step that increments
\* steps_fully_rejected; an accepted step increments steps_accepted, and every
\* valid step increments steps by exactly one.
C14_AcceptanceRule ==
    [][ /\ sim'.m_steps_fully_rejected # sim.m_steps_fully_rejected =>
              /\ sim.pc = "ratio"
              /\ prob_eq(sim.probability_ratio, ProbZero)
        /\ (sim.pc = "ratio" /\ prob_ge(sim.probability_ratio, ProbZero)) =>
              \A p \in {sim.probability_ratio} :
              \A accept \in {\/ prob_ge(p, ProbOne)
                             \/ /\ prob_gt(p, ProbZero)
                                /\ sim'.uniform_draws # <<>>
                                /\ prob_gt(p, sim'.uniform_draws[1])} :
                 /\ sim'.pc # "thrown"
                 /\ sim'.m_steps = sim.m_steps + 1
                 /\ prob_eq(p, ProbZero) => ~accept
                 /\ sim'.accepted = accept
                 /\ sim'.walk.n_accept = sim.walk.n_accept + (IF accept THEN 1 ELSE 0)
                 /\ sim'.walk.n_reject = sim.walk.n_reject + (IF accept THEN 0 ELSE 1)
                 /\ sim'.m_steps_accepted =
                        sim.m_steps_accepted + (IF accept THEN 1 ELSE 0)
                 /\ sim'.m_steps_fully_rejected =
                        sim.m_steps_fully_rejected
                            + (IF prob_eq(p, ProbZero) THEN 1 ELSE 0)
      ]_vars

\* steps have been accepted and fully rejected, and the last one was rejected
\* on a draw that its ratio, between 0 and 1, did not exceed
C14_Witness ==
    /\ sim.pc \in {"measure", "step", "initialize"}
    /\ sim.m_steps_accepted > 0
    /\ sim.m_steps_fully_rejected > 0
    /\ sim.m_steps > sim.m_steps_accepted + sim.m_steps_fully_rejected
    /\ sim.uniform_draws # <<>>
    /\ prob_eq(sim.probability_ratio, sim.uniform_draws[1])
    /\ ~sim.accepted

\* C15: a step whose ratio is negative or NaN calls reject_transition on the
\* walk exactly once and never accept_transition, then raises the
\* invalid-probability error; steps, steps_accepted and steps_fully_rejected
\* stay as they were, no measurement is called for that step, and the loop
\* that ran the step performs no further step: the driver moves again only
\* when iterate is entered anew.
C15_InvalidProbability ==
    [][ /\ (sim.pc = "ratio" /\ ~prob_ge(sim.probability_ratio, ProbZero)) =>
              /\ sim'.pc = "thrown"
              /\ sim'.walk.n_reject = sim.walk.n_reject + 1
              /\ sim'.walk.n_accept = sim.walk.n_accept
              /\ sim'.walk.n_compute = sim.walk.n_compute
              /\ ~sim'.walk.transition_in_progress
              /\ sim'.m_steps = sim.m_steps
              /\ sim'.m_steps_accepted = sim.m_steps_accepted
              /\ sim'.m_steps_fully_rejected = sim.m_steps_fully_rejected
              /\ sim'.measurements = sim.measurements
              /\ sim'.i = sim.i /\ sim'.sweeps = sim.sweeps
        /\ (sim.pc = "thrown" /\ sim' # sim) =>
              /\ sim.caller = "iterate"
              /\ sim'.caller = "iterate" /\ sim'.pc = "step" /\ sim'.i = 0
              /\ sim'.walk = sim.walk
              /\ sim'.measurements = sim.measurements
              /\ sim'.m_steps = sim.m_steps
      ]_vars

\* the second sweep of an iterate of three or more raised the error on a NaN,
\* with a sweep still to go, and the caller has not called iterate again
C15_Witness ==
    /\ sim.pc = "thrown"
    /\ sim.caller = "iterate"
    /\ prob_is_nan(sim.probability_ratio)
    /\ sim.i = 1 /\ sim.i + 1 < sim.sweeps
    /\ sim.walk.n_reject > 0
    /\ ~sim.walk.transition_in_progress

\* the constructor raised the error on a negative ratio in an
\* initialization sweep
C15_WitnessConstructor ==
    /\ sim.pc = "thrown"
    /\ sim.caller = "constructor"
    /\ prob_gt(ProbZero, sim.probability_ratio)

\* C16: in the initialization sweeps and in iterate alike, every call of
\* compute_probability_ratio_of_random_transition is followed by exactly one
\* call of accept_transition or reject_transition before the next such call
\* and before any measurement is called.
C16_TransitionPairing ==
    [][ /\ sim'.walk.n_compute # sim.walk.n_compute =>
              /\ ~sim.walk.transition_in_progress
              /\ sim'.walk.n_compute = sim.walk.n_compute + 1
              /\ sim'.walk.n_accept = sim.walk.n_accept
              /\ sim'.walk.n_reject = sim.walk.n_reject
              /\ sim'.walk.transition_in_progress
        /\ sim'.measurements # sim.measurements =>
              /\ ~sim.walk.transition_in_progress
              /\ sim.walk.n_compute = sim.walk.n_accept + sim.walk.n_reject
        /\ (sim.walk.transition_in_progress /\ sim' # sim) =>
              /\ sim'.walk.n_accept + sim'.walk.n_reject
                     = sim.walk.n_accept + sim.walk.n_reject + 1
              /\ sim'.walk.n_compute = sim.walk.n_compute
              /\ ~sim'.walk.transition_in_progress
        /\ ~sim.walk.transition_in_progress =>
              /\ sim'.walk.n_accept = sim.walk.n_accept
              /\ sim'.walk.n_reject = sim.walk.n_reject
              /\ sim.walk.n_compute = sim.walk.n_accept + sim.walk.n_reject
      ]_vars

\* a measurement is about to be called after initialization sweeps and
\* sweeps of iterate, of which some were accepted and some rejected
C16_Witness ==
    /\ sim.pc = "measure" /\ sim.m = 2
    /\ sim.initialization_sweeps > 0
    /\ sim.i > 0
    /\ sim.walk.n_accept > 0 /\ sim.walk.n_reject > 0
    /\ sim.walk.n_compute = sim.walk.n_accept + sim.walk.n_reject

\* C17: in iterate a measurement receives step_advanced when the step was
\* accepted or when it has received no step_advanced since construction, and
\* step_repeated otherwise; so no measurement receives step_repeated before
\* its first step_advanced, the first sweep delivers step_advanced whatever
\* its outcome, and measurement_not_yet_updated, once cleared, is never set
\* again.
C17_MeasurementRouting ==
    [][ /\ \A k \in 1..NMeasurements :
              /\ sim.measurements[k].repeated > 0 => sim.measurements[k].advanced > 0
              /\ sim.measurements[k].advanced > 0 => sim.measurements[k].initialized = 1
        /\ ~sim.measurement_not_yet_updated => ~sim'.measurement_not_yet_updated
        /\ sim.measurement_not_yet_updated =>
              \A k \in 1..NMeasurements : sim.measurements[k].repeated = 0
        /\ sim.pc = "measure" =>
              \A k \in {sim.m} :
              \A advanced \in {sim.accepted \/ sim.measurements[k].advanced = 0} :
                 /\ sim'.measurements[k].advanced =
                        sim.measurements[k].advanced + (IF advanced THEN 1 ELSE 0)
                 /\ sim'.measurements[k].repeated =
                        sim.measurements[k].repeated + (IF advanced THEN 0 ELSE 1)
                 /\ sim'.measurements[k].last =
                        IF advanced THEN "step_advanced" ELSE "step_repeated"
                 /\ \A j \in 1..NMeasurements \ {k} :
                        sim'.measurements[j] = sim.measurements[j]
      ]_vars

\* no step has been accepted, and yet the second measurement has received one
\* step_advanced, for the first sweep, and step_repeated for later ones
C17_Witness ==
    /\ sim.caller = "iterate"
    /\ sim.m_steps_accepted = 0
    /\ sim.measurements[2].advanced = 1
    /\ sim.measurements[2].repeated > 0
    /\ ~sim.measurement_not_yet_updated

\* the step calls measurement k has received in the current iterate, and the
\* steps counted in it
calls_in_iterate(k) == Measurement_calls(sim.measurements[k]) - sim.entry_calls[k]
steps_in_iterate == sim.m_steps - sim.entry_steps

\* C18: in iterate the measurements of sweep k are called after the step of
\* sweep k and before the step of sweep k + 1; each measurement receives
\* exactly one call per sweep, in list order; and when iterate(n) returns
\* without an error each measurement has received exactly n calls in it.
C18_SweepOrder ==
    sim.caller = "iterate" =>
        /\ sim.pc \in {"step", "ratio", "thrown"} =>
              /\ sim.i < sim.sweeps
              /\ steps_in_iterate = sim.i
              /\ \A k \in 1..NMeasurements : calls_in_iterate(k) = sim.i
        /\ sim.pc = "measure" =>
              /\ sim.i < sim.sweeps
              /\ steps_in_iterate = sim.i + 1
              /\ \A k \in 1..NMeasurements :
                    calls_in_iterate(k) = IF k < sim.m THEN sim.i + 1 ELSE sim.i
        /\ sim.pc = "idle" =>
              /\ sim.i = sim.sweeps
              /\ steps_in_iterate = sim.sweeps
              /\ \A k \in 1..NMeasurements : calls_in_iterate(k) = sim.sweeps

\* a second call of iterate, for three sweeps, has returned
C18_Witness ==
    /\ sim.caller = "iterate" /\ sim.pc = "idle"
    /\ sim.sweeps = 3
    /\ sim.entry_calls[1] > 0
    /\ \A k \in 1..NMeasurements : calls_in_iterate(k) = 3

\* in the second sweep the first measurement has been called and the second
\* has not
C18_WitnessMidSweep ==
    /\ sim.caller = "iterate" /\ sim.pc = "measure"
    /\ sim.i = 1 /\ sim.m = 2
    /\ calls_in_iterate(1) = 2 /\ calls_in_iterate(2) = 1

\* C19: the constructor performs exactly initialization_sweeps steps, during
\* which no method of any measurement is called, and then calls initialize
\* exactly once on each measurement, before any step_advanced or
\* step_repeated; if an initialization step raises the error, no measurement
\* is initialized.
C19_Initialization ==
    /\ \A k \in 1..NMeasurements :
          /\ sim.measurements[k].initialized <= 1
          /\ Measurement_calls(sim.measurements[k]) > 0 =>
                \A j \in 1..NMeasurements : sim.measurements[j].initialized = 1
    /\ sim.caller = "iterate" =>
          /\ \A k \in 1..NMeasurements : sim.measurements[k].initialized = 1
          /\ sim.walk.n_compute >= sim.initialization_sweeps
          /\ sim.entry_steps >= sim.initialization_sweeps
    /\ sim.caller = "constructor" =>
          /\ sim.sweeps = sim.initialization_sweeps
          /\ sim.pc \in {"step", "ratio", "thrown"} =>
                /\ sim.i < sim.initialization_sweeps
                /\ sim.m_steps = sim.i
                /\ sim.walk.n_compute = sim.i + (IF sim.pc = "step" THEN 0 ELSE 1)
                /\ \A k \in 1..NMeasurements :
                      sim.measurements[k] = InitialMeasurement
          /\ sim.pc \in {"initialize", "idle"} =>
                /\ sim.m_steps = sim.initialization_sweeps
                /\ sim.walk.n_compute = sim.initialization_sweeps
                /\ \A k \in 1..NMeasurements :
                      /\ Measurement_calls(sim.measurements[k]) = 0
                      /\ sim.measurements[k].initialized =
                            IF sim.pc = "idle" \/ k < sim.m THEN 1 ELSE 0
          /\ sim.pc # "measure"

\* a driver constructed with two initialization sweeps, before any iterate
C19_Witness ==
    /\ sim.caller = "constructor" /\ sim.pc = "idle"
    /\ sim.initialization_sweeps = 2
    /\ sim.m_steps = 2
    /\ \A k \in 1..NMeasurements : sim.measurements[k].last = "initialize"

\* the second of two initialization sweeps raised the error
C19_WitnessRaised ==
    /\ sim.caller = "constructor" /\ sim.pc = "thrown"
    /\ sim.i = 1
    /\ \A k \in 1..NMeasurements : sim.measurements[k].initialized = 0

\* ------------------------------------------------------------------------
\* DensityDensityMeasurement over an NDLattice<1>
\* ------------------------------------------------------------------------

\* length[0] and basis_indices of the lattice, the number of particles of the
\* walk, and the largest number of step calls the measurement receives
LatticeLength == 2
BasisIndices == 2
DensityFilled == 2
MaxMeasurementCalls == 3

\* NDLattice: count_total_sites, and the offsets the constructor sets up
total_sites == LatticeLength * BasisIndices
lattice_offset == 1
basis_offset == lattice_offset * LatticeLength

site_from_index(n) == [bs |-> n % LatticeLength, basis_index |-> n \div LatticeLength]

site_to_index(site) == site.bs * lattice_offset + site.basis_index * basis_offset

\* the loops of enforce_boundary bring each coordinate into its range
enforce_boundary(site) ==
    [bs |-> site.bs % LatticeLength, basis_index |-> site.basis_index % BasisIndices]

\* site after asm_subtract_site_vector(site, other), other a Bravais site
asm_subtract_site_vector(site, other) ==
    enforce_boundary([site EXCEPT !.bs = @ - other])

\* the configurations of the walk: r[i] is the site index of particle i
Configurations ==
    {r \in [1..DensityFilled -> 0..(total_sites - 1)] :
        \A i, j \in 1..DensityFilled : i # j => r[i] # r[j]}

\* arrays indexed [basis][site] and [basis]
BasisRange == 0..(BasisIndices - 1)
SiteRange == 0..(total_sites - 1)
ConstantArray2(v) == [b \in BasisRange |-> [n \in SiteRange |-> v]]
ConstantArray1(v) == [b \in BasisRange |-> v]

\* initialize_: the totals are zeroed; resizeLike leaves the entries of
\* current_density_accum and current_denominator uninitialized, here all
\* equal to some value
initialize_(r, uninitialized) ==
    [density_accum |-> ConstantArray2(0),
     denominator |-> ConstantArray1(0),
     current_density_accum |-> ConstantArray2(uninitialized),
     current_denominator |-> ConstantArray1(uninitialized),
     \* the positions of the walk the measurement is called with
     r |-> r,
     \* history: the calls received, and what the most recent measure_ added
     \* to density_accum and to denominator
     pc |-> "initialized",
     n_measured |-> 0,
     n_repeated |-> 0,
     contribution_accum |-> ConstantArray2(0),
     contribution_denominator |-> ConstantArray1(0)]

\* repeat_measurement_
repeat_measurement_(ms) ==
    [ms EXCEPT !.density_accum =
                   [b \in BasisRange |-> [n \in SiteRange |->
                       @[b][n] + ms.current_density_accum[b][n]]],
               !.denominator =
                   [b \in BasisRange |-> @[b] + ms.current_denominator[b]]]

\* the increments of line 54 over all pairs of particles: those made to the
\* entry [b][n]
pair_increments(r, b, n) ==
    Cardinality({pair \in (1..DensityFilled) \X (1..DensityFilled) :
        /\ site_from_index(r[pair[1]]).basis_index = b
        /\ site_to_index(asm_subtract_site_vector(
               site_from_index(r[pair[2]]), site_from_index(r[pair[1]]).bs)) = n})

\* the increments of line 56 made to the entry [b]
particle_increments(r, b) ==
    Cardinality({i \in 1..DensityFilled : site_from_index(r[i]).basis_index = b})

\* measure_ on a walk with positions r
measure_(ms, r) ==
    repeat_measurement_(
        [ms EXCEPT !.r = r,
                   !.current_density_accum = ConstantArray2(0),
                   !.current_denominator = ConstantArray1(0),
                   !.density_accum =
                       [b \in BasisRange |-> [n \in SiteRange |->
                           @[b][n] + pair_increments(r, b, n)]],
                   !.denominator =
                       [b \in BasisRange |-> @[b] + particle_increments(r, b)]])

\* step_advanced: the walk holds r, as before or after an accepted step, and
\* the measurement measures
DensityStepAdvancedCall ==
    /\ meas.pc # "none"
    /\ meas.n_measured + meas.n_repeated < MaxMeasurementCalls
    /\ \E r \in Configurations :
       \A ms \in {measure_(meas, r)} :
          meas' = [ms EXCEPT
                      !.pc = "measured",
                      !.n_measured = @ + 1,
                      !.contribution_accum =
                          [b \in BasisRange |-> [n \in SiteRange |->
                              ms.density_accum[b][n] - meas.density_accum[b][n]]],
                      !.contribution_denominator =
                          [b \in BasisRange |->
                              ms.denominator[b] - meas.denominator[b]]]
    /\ UNCHANGED <<cm, walk, sim, cli, lat, est, comb, amp>>

\* step_repeated: the walk is where the last step_advanced saw it, and the
\* measurement repeats
DensityStepRepeatedCall ==
    /\ meas.pc = "measured"
    /\ meas.n_measured + meas.n_repeated < MaxMeasurementCalls
    /\ meas' = [repeat_measurement_(meas) EXCEPT !.n_repeated = @ + 1]
    /\ UNCHANGED <<cm, walk, sim, cli, lat, est, comb, amp>>

InitDD ==
    /\ cli = NoCli /\ lat = NoLat /\ est = NoEst
    /\ comb = NoComb /\ amp = NoAmp
    /\ cm = DefaultEngine
    /\ walk = NoWalk
    /\ sim = NoSim
    /\ \E r \in Configurations, uninitialized \in 0..1 :
          meas = initialize_(r, uninitialized)

NextDD ==
    \/ DensityStepAdvancedCall
    \/ DensityStepRepeatedCall

SpecDD == InitDD /\ [][NextDD]_vars

\* C20: each call of repeat_measurement_ increases density_accum and
\* denominator by exactly what the most recent call of measure_ added to them
\* for the configuration, which has not changed since, so that a
\* configuration followed by k repeated steps is weighted k + 1 times.
C20_RepeatAddsContribution ==
    [][ meas'.n_repeated = meas.n_repeated + 1 =>
           /\ meas'.r = meas.r
           /\ \A b \in BasisRange :
                 /\ meas'.denominator[b] =
                        meas.denominator[b] + meas.contribution_denominator[b]
                 /\ \A n \in SiteRange :
                        meas'.density_accum[b][n] =
                            meas.density_accum[b][n] + meas.contribution_accum[b][n]
      ]_vars

\* what the code does: a repeated step leaves both totals as they were, and
\* measure_ adds the increments of its pair loop once
C20_RepeatAddsNothing ==
    [][ /\ meas'.n_repeated = meas.n_repeated + 1 =>
              /\ meas'.density_accum = meas.density_accum
              /\ meas'.denominator = meas.denominator
        /\ meas'.n_measured = meas.n_measured + 1 =>
              \A b \in BasisRange :
                 /\ meas'.contribution_denominator[b] = particle_increments(meas'.r, b)
                 /\ \A n \in SiteRange :
                        meas'.contribution_accum[b][n] = pair_increments(meas'.r, b, n)
      ]_vars

\* ------------------------------------------------------------------------
\* Claims about the accessors and the determinant of the engine
\* ------------------------------------------------------------------------

\* C21, as stated: READY is the only state in which the engine can be
\* inspected: while a row, column, columns or rows-and-columns update is
\* outstanding get_matrix, get_inverse, get_determinant and is_singular are
\* all rejected.
C21_InspectionOnlyWhenReady ==
    cm.current_state \in InProgressStates =>
        /\ ~get_matrix_asserts(cm)
        /\ ~get_inverse_asserts(cm)
        /\ ~get_determinant_asserts(cm)
        /\ ~is_singular_asserts(cm)

\* C21, amended: get_inverse is accepted only in READY, and there only when
\* nullity_lower_bound = 0; get_matrix, get_determinant and is_singular are
\* rejected only before initialization, and while an update is outstanding
\* they are accepted and give the tentative matrix and determinant.
C21_InspectionWhenInitialized ==
    /\ get_inverse_asserts(cm) <=>
          (cm.current_state = "READY_FOR_UPDATE" /\ cm.nullity_lower_bound = 0)
    /\ cm.current_state = "UNINITIALIZED" =>
          /\ ~get_matrix_asserts(cm)
          /\ ~get_determinant_asserts(cm)
          /\ ~is_singular_asserts(cm)
    /\ cm.current_state \in InProgressStates \cup {"READY_FOR_UPDATE"} =>
          /\ get_matrix_asserts(cm)
          /\ get_determinant_asserts(cm)
          /\ is_singular_asserts(cm)
    /\ cm.current_state \in InProgressStates => ~get_inverse_asserts(cm)

\* a row update is outstanding on an engine that holds an inverse, and the
\* determinant that can be read is the tentative one
C21_Witness ==
    /\ cm.current_state = "ROW_UPDATE_IN_PROGRESS"
    /\ cm.nullity_lower_bound = 0
    /\ cm.det # cm.old_det
    /\ get_determinant_asserts(cm) /\ is_singular_asserts(cm) /\ get_matrix_asserts(cm)
    /\ ~get_inverse_asserts(cm)

\* the factors by which a row or column with entries 0..MaxVal can be scaled
\* into one with entries 0..MaxNewVal
Alphas == {Zero, <<1, 2>>, One}

\* the engine f holds determinant d times alpha for the matrix it holds, and
\* the inverse of that matrix when alpha is not zero
holds_scaled_determinant(f, d, alpha) ==
    /\ f.current_state = "READY_FOR_UPDATE"
    /\ f.det = RMul(d, alpha)
    /\ f.det = Big_from(Determinant(f.mat))
    /\ IF alpha = Zero
       THEN is_singular(f) /\ ~get_inverse_asserts(f)
       ELSE /\ ~is_singular(f) /\ get_inverse_asserts(f)
            /\ MatMul(f.mat, f.invmat) = Identity(NRows(f.mat))

\* C22: on an engine that is not singular, update_row(r, alpha * row r) makes
\* the tentative determinant alpha times the determinant before, and
\* finish_row_update commits that value (with the inverse of the new matrix
\* when alpha is not zero); the same holds of update_column and
\* finish_column_update with column c.
C22_ScaledRowOrColumn ==
    /\ (cm.current_state = "ROW_UPDATE_IN_PROGRESS" /\ Big_is_nonzero(cm.old_det)) =>
          \A old \in {Row(pre_update_mat(cm), cm.pending_index)} :
          \A alpha \in Alphas :
             Row(cm.mat, cm.pending_index) = VScale(old, alpha) =>
                /\ cm.det = RMul(cm.old_det, alpha)
                /\ holds_scaled_determinant(finish_row_update(cm), cm.old_det, alpha)
    /\ (cm.current_state = "COLUMN_UPDATE_IN_PROGRESS" /\ Big_is_nonzero(cm.old_det)) =>
          \A old \in {Col(pre_update_mat(cm), cm.pending_index)} :
          \A alpha \in Alphas :
             Col(cm.mat, cm.pending_index) = VScale(old, alpha) =>
                /\ cm.det = RMul(cm.old_det, alpha)
                /\ holds_scaled_determinant(finish_column_update(cm), cm.old_det, alpha)

\* update_row has halved the first row of diag(2, 1): the determinant went
\* from 2 to 1 and the inverse will be the identity
C22_Witness ==
    /\ cm.current_state = "ROW_UPDATE_IN_PROGRESS"
    /\ cm.pending_index = 1
    /\ pre_update_mat(cm) = <<<<Rat(2), Zero>>, <<Zero, One>>>>
    /\ cm.mat = <<<<One, Zero>>, <<Zero, One>>>>
    /\ cm.old_det = Rat(2) /\ cm.det = One
    /\ finish_row_update(cm).invmat = Identity(2)

\* update_column has halved a column of a matrix that is not diagonal
C22_WitnessColumn ==
    /\ cm.current_state = "COLUMN_UPDATE_IN_PROGRESS"
    /\ Big_is_nonzero(cm.old_det)
    /\ cm.det = RMul(cm.old_det, <<1, 2>>)
    /\ Col(cm.mat, cm.pending_index)
           = VScale(Col(pre_update_mat(cm), cm.pending_index), <<1, 2>>)
    /\ cm.mat[1][2] # Zero /\ cm.mat[2][1] # Zero

\* C23: in every READY state the stored determinant is zero, and is_singular
\* answers true, exactly when nullity_lower_bound > 0; when
\* nullity_lower_bound = 0 the engine holds the inverse of its matrix and
\* get_inverse is accepted.
C23_SingularIffNullity ==
    cm.current_state = "READY_FOR_UPDATE" =>
        /\ cm.nullity_lower_bound >= 0
        /\ Big_is_zero(cm.det) <=> cm.nullity_lower_bound > 0
        /\ is_singular(cm) <=> cm.nullity_lower_bound > 0
        /\ get_inverse_asserts(cm) <=> ~is_singular(cm)
        /\ cm.nullity_lower_bound = 0 =>
              MatMul(cm.mat, cm.invmat) = Identity(NRows(cm.mat))

\* an update that makes singular an engine that was not is outstanding, and
\* finishing it leaves a READY engine with a zero determinant and a nullity
\* of one
C23_Witness ==
    /\ cm.current_state \in InProgressStates
    /\ cm.nullity_lower_bound = 0
    /\ Big_is_nonzero(cm.old_det)
    /\ \A f \in {finish_pending(cm)} :
          /\ f.current_state = "READY_FOR_UPDATE"
          /\ is_singular(f)
          /\ f.nullity_lower_bound = 1

\* an update that makes invertible an engine that was singular is
\* outstanding, and finishing it leaves a READY engine that holds an inverse
C23_WitnessInvertible ==
    /\ cm.current_state \in InProgressStates
    /\ cm.nullity_lower_bound > 0
    /\ \A f \in {finish_pending(cm)} :
          /\ f.current_state = "READY_FOR_UPDATE"
          /\ ~is_singular(f)
          /\ f.nullity_lower_bound = 0
          /\ get_inverse_asserts(f)

\* ------------------------------------------------------------------------
\* The command-line driver: main and do_simulation reading the JSON input
\* ------------------------------------------------------------------------

\* a JSON value where an object is expected: whether it is an object, and the
\* names of its members; "extra" is a name no list of keys holds
NotAnObject == [is_object |-> FALSE, keys |-> {}]
JsonObjects(names) ==
    {NotAnObject} \cup
    {[is_object |-> TRUE, keys |-> k] : k \in SUBSET (names \cup {"extra"})}

\* the NULL-terminated lists of keys
json_input_required == <<"rng", "system">>
json_rng_allowed == <<"seed">>
json_system_required == <<"lattice", "wavefunction">>
json_lattice_required == <<"size">>
json_wavefunction_required == <<"type">>
json_free_fermion_wavefunction_required == <<"type", "orbitals">>
json_orbitals_required == <<"filling", "boundary-conditions">>

SeqRange(keys) == {keys[i] : i \in 1..Len(keys)}

\* ensure_required: TRUE when it returns, FALSE when it throws
ensure_required(object_keys, keys) ==
    \A i \in 1..Len(keys) : keys[i] \in object_keys

\* a pointer into a list of keys is the index of its target, Len(keys) + 1 for
\* the terminating NULL entry; the null pointer is 0
NullPointer == 0

\* lines 93-97: where key stands when the inner loop of ensure_only ends
ensure_only_scan(name, keys) ==
    IF \E i \in 1..Len(keys) : keys[i] = name
    THEN CHOOSE i \in 1..Len(keys) :
            keys[i] = name /\ \A j \in 1..(i - 1) : keys[j] # name
    ELSE Len(keys) + 1

\* an ensure_only that tests the entry key points at
ensure_only_tests_entry(object_keys, keys) ==
    \A name \in object_keys : ensure_only_scan(name, keys) # Len(keys) + 1

\* ensure_only: TRUE when it returns, FALSE when it throws; line 98 compares
\* the pointer key, not the entry it points at, with NULL
ensure_only(object_keys, keys) ==
    \A name \in object_keys : ensure_only_scan(name, keys) # NullPointer

\* the values of the members the driver reads, by what its tests see of them
SeedKinds == {"integral", "other"}
SizeKinds == {"not_array", "bad_entry", "dims0", "dims1", "dims2", "dims3"}
TypeKinds == {"not_string", "unknown", "free-fermion"}
\* boundary-conditions is no array, or an array of one or two entries, each a
\* value that is not integral or an integer 0..MaxBoundaryDenominator
MaxBoundaryDenominator == 3
BoundaryConditionEntries ==
    {[is_integral |-> FALSE, value |-> 0]}
       \cup [is_integral : {TRUE}, value : 0..MaxBoundaryDenominator]
BoundaryConditionsKinds ==
    {[is_array |-> FALSE, entries |-> <<>>]}
       \cup [is_array : {TRUE},
             entries : [1..1 -> BoundaryConditionEntries]
                          \cup [1..2 -> BoundaryConditionEntries]]

\* a phase_t that is zero or on the unit circle: its modulus, and its
\* argument as a fraction of a full turn, in [0, 1)
PhaseZero == [modulus |-> 0, turn |-> Zero]
UnitPhase(turn) ==
    [modulus |-> 1, turn |-> Norm(turn[1] % turn[2], turn[2])]

\* BoundaryCondition::calculate_phase: 0 for open boundary conditions, else
\* exp(2 pi i p), of which the values for p = 1, 1/2, 1/4, 3/4 are spelled out
calculate_phase(p) == IF p = Zero THEN PhaseZero ELSE UnitPhase(p)

\* the assertion of the constructor of BoundaryCondition
BoundaryCondition_asserts(p_) == p_[1] >= 0 /\ p_[1] <= p_[2]
BoundaryCondition(p_) == [m_p |-> p_, m_phase |-> calculate_phase(p_)]

\* a conversion of the entry n to the twist 1/n
twist_of_denominator(n) == Norm(1, n)

\* boost::rational<int>(n), the conversion line 117 applies to asUInt()
twist_of_json_entry(n) == Rat(n)

\* line 115: the entry is accepted
boundary_condition_entry_is_valid(entry) == entry.is_integral /\ entry.value > 0
FillingKinds == {"not_array", "bad_entry", "ok"}

\* the driver before it reads its input
InitialCli ==
    [pc |-> "top", exit_code |-> -1, stderr_lines |-> 0, simulations |-> 0,
     ndimensions |-> 0, boundary_conditions |-> <<>>,
     \* history: the parts of the input read so far and what is wrong in them
     input |-> <<>>, defects |-> {}]

\* lines 241-243: the ParseError is caught
parse_error(c) ==
    [c EXCEPT !.pc = "exited", !.exit_code = 1, !.stderr_lines = @ + 1]

\* lines 188-191
parse_top(c, v) ==
    IF ~v.is_object THEN parse_error(c)
    ELSE IF ~ensure_required(v.keys, json_input_required) THEN parse_error(c)
    ELSE IF ~ensure_only(v.keys, json_input_required) THEN parse_error(c)
    ELSE [c EXCEPT !.pc = "rng"]

\* lines 195-206
parse_rng(c, v, seed) ==
    IF ~v.is_object THEN parse_error(c)
    ELSE IF ~ensure_only(v.keys, json_rng_allowed) THEN parse_error(c)
    ELSE IF "seed" \in v.keys
         THEN IF seed # "integral" THEN parse_error(c) ELSE [c EXCEPT !.pc = "system"]
         ELSE parse_error(c)

\* lines 209-213
parse_system(c, v) ==
    IF ~v.is_object THEN parse_error(c)
    ELSE IF ~ensure_required(v.keys, json_system_required) THEN parse_error(c)
    ELSE IF ~ensure_only(v.keys, json_system_required) THEN parse_error(c)
    ELSE [c EXCEPT !.pc = "lattice"]

\* lines 216-240
parse_lattice(c, v, size) ==
    IF ~v.is_object THEN parse_error(c)
    ELSE IF ~ensure_required(v.keys, json_lattice_required) THEN parse_error(c)
    ELSE IF ~ensure_only(v.keys, json_lattice_required) THEN parse_error(c)
    ELSE IF size \in {"not_array", "bad_entry"} THEN parse_error(c)
    ELSE IF size = "dims1" THEN [c EXCEPT !.pc = "wavefunction", !.ndimensions = 1]
    ELSE IF size = "dims2" THEN [c EXCEPT !.pc = "wavefunction", !.ndimensions = 2]
    ELSE parse_error(c)

\* lines 259-279
parse_wavefunction(c, v, type) ==
    IF ~v.is_object THEN parse_error(c)
    ELSE IF ~ensure_required(v.keys, json_wavefunction_required) THEN parse_error(c)
    ELSE IF type = "not_string" THEN parse_error(c)
    ELSE IF type = "free-fermion"
         THEN IF ~ensure_required(v.keys, json_free_fermion_wavefunction_required)
              THEN parse_error(c)
              ELSE IF ~ensure_only(v.keys, json_free_fermion_wavefunction_required)
                   THEN parse_error(c)
                   ELSE [c EXCEPT !.pc = "orbitals"]
         ELSE parse_error(c)

\* the loop of lines 114-118 from entry i on: an entry that is not a positive
\* integer is a ParseError, and one whose BoundaryCondition fails the
\* assertion of the constructor ends the program
RECURSIVE parse_boundary_conditions(_, _, _)
parse_boundary_conditions(c, bcs, i) ==
    IF i > Len(bcs) THEN c
    ELSE IF ~boundary_condition_entry_is_valid(bcs[i]) THEN parse_error(c)
    ELSE IF ~BoundaryCondition_asserts(twist_of_json_entry(bcs[i].value))
         THEN [c EXCEPT !.pc = "aborted"]
         ELSE parse_boundary_conditions(
                  [c EXCEPT !.boundary_conditions =
                                Append(@, BoundaryCondition(
                                              twist_of_json_entry(bcs[i].value)))],
                  bcs, i + 1)

\* lines 121-137, when the boundary conditions have been set up
parse_filling(c, filling) ==
    IF c.pc # "orbitals" THEN c
    ELSE IF filling # "ok" THEN parse_error(c)
    ELSE [c EXCEPT !.pc = "simulate"]

\* parse_json_orbitals, lines 106-137: it does not call ensure_object, and
\* the BOOST_ASSERT of ensure_required fails on a value that is no object
parse_json_orbitals(c, v, bcs, filling) ==
    IF ~v.is_object THEN [c EXCEPT !.pc = "aborted"]
    ELSE IF ~ensure_required(v.keys, json_orbitals_required) THEN parse_error(c)
    ELSE IF ~ensure_only(v.keys, json_orbitals_required) THEN parse_error(c)
    ELSE IF ~bcs.is_array THEN parse_error(c)
    ELSE IF Len(bcs.entries) # c.ndimensions THEN parse_error(c)
    ELSE parse_filling(parse_boundary_conditions(c, bcs.entries, 1), filling)

\* what is wrong with an object: a value that is no object, a missing
\* required key, a key that is not known, a malformed value
defects_of(stage, v, required, allowed, malformed) ==
    {<<stage, "not an object">> : x \in {1} \ {IF v.is_object THEN 1 ELSE 0}}
    \cup {<<stage, "missing key">> : x \in
             {k \in SeqRange(required) : v.is_object /\ k \notin v.keys}}
    \cup {<<stage, "unrecognized key">> : x \in v.keys \ SeqRange(allowed)}
    \cup {<<stage, "malformed value">> : x \in {1} \ {IF malformed THEN 0 ELSE 1}}

\* boundary-conditions is an array of ndimensions positive integers
boundary_conditions_are_valid(bcs, ndimensions) ==
    /\ bcs.is_array
    /\ Len(bcs.entries) = ndimensions
    /\ \A i \in 1..Len(bcs.entries) :
          boundary_condition_entry_is_valid(bcs.entries[i])

\* the driver records the part of the input it reads next
reads(c, stage, part, defects) ==
    [c EXCEPT !.input = Append(@, <<stage, part>>), !.defects = @ \cup defects]

ParseTopStep ==
    /\ cli.pc = "top"
    /\ \E v \in JsonObjects(SeqRange(json_input_required)) :
          cli' = parse_top(
                     reads(cli, "top", v,
                           defects_of("top", v, json_input_required,
                                      json_input_required, FALSE)), v)
    /\ UNCHANGED <<cm, walk, sim, meas, lat, est, comb, amp>>

ParseRngStep ==
    /\ cli.pc = "rng"
    /\ \E v \in JsonObjects(SeqRange(json_rng_allowed)), seed \in SeedKinds :
          /\ "seed" \notin v.keys => seed = "other"
          /\ cli' = parse_rng(
                     reads(cli, "rng", <<v, seed>>,
                           defects_of("rng", v, json_rng_allowed, json_rng_allowed,
                                      "seed" \in v.keys /\ seed # "integral")),
                     v, seed)
    /\ UNCHANGED <<cm, walk, sim, meas, lat, est, comb, amp>>

ParseSystemStep ==
    /\ cli.pc = "system"
    /\ \E v \in JsonObjects(SeqRange(json_system_required)) :
          cli' = parse_system(
                     reads(cli, "system", v,
                           defects_of("system", v, json_system_required,
                                      json_system_required, FALSE)), v)
    /\ UNCHANGED <<cm, walk, sim, meas, lat, est, comb, amp>>

ParseLatticeStep ==
    /\ cli.pc = "lattice"
    /\ \E v \in JsonObjects(SeqRange(json_lattice_required)), size \in SizeKinds :
          /\ "size" \notin v.keys => size = "not_array"
          /\ cli' = parse_lattice(
                     reads(cli, "lattice", <<v, size>>,
                           defects_of("lattice", v, json_lattice_required,
                                      json_lattice_required,
                                      "size" \in v.keys /\ size \notin {"dims1", "dims2"})),
                     v, size)
    /\ UNCHANGED <<cm, walk, sim, meas, lat, est, comb, amp>>

ParseWavefunctionStep ==
    /\ cli.pc = "wavefunction"
    /\ \E v \in JsonObjects(SeqRange(json_free_fermion_wavefunction_required)),
          type \in TypeKinds :
          /\ "type" \notin v.keys => type = "not_string"
          /\ cli' = parse_wavefunction(
                     reads(cli, "wavefunction", <<v, type>>,
                           defects_of("wavefunction", v,
                                      json_free_fermion_wavefunction_required,
                                      json_free_fermion_wavefunction_required,
                                      "type" \in v.keys /\ type # "free-fermion")),
                     v, type)
    /\ UNCHANGED <<cm, walk, sim, meas, lat, est, comb, amp>>

ParseOrbitalsStep ==
    /\ cli.pc = "orbitals"
    /\ \E v \in JsonObjects(SeqRange(json_orbitals_required)),
          bcs \in BoundaryConditionsKinds, filling \in FillingKinds :
          /\ "boundary-conditions" \notin v.keys => ~bcs.is_array
          /\ "filling" \notin v.keys => filling = "not_array"
          /\ cli' = parse_json_orbitals(
                     reads(cli, "orbitals", <<v, bcs, filling>>,
                           defects_of("orbitals", v, json_orbitals_required,
                                      json_orbitals_required,
                                      \/ /\ "boundary-conditions" \in v.keys
                                         /\ ~boundary_conditions_are_valid(bcs, cli.ndimensions)
                                      \/ "filling" \in v.keys /\ filling # "ok")),
                     v, bcs, filling)
    /\ UNCHANGED <<cm, walk, sim, meas, lat, est, comb, amp>>

\* lines 283-315: the simulations run and the driver returns 0
SimulateStep ==
    /\ cli.pc = "simulate"
    /\ cli' = [cli EXCEPT !.pc = "exited", !.exit_code = 0, !.simulations = @ + 1]
    /\ UNCHANGED <<cm, walk, sim, meas, lat, est, comb, amp>>

InitCLI ==
    /\ cm = DefaultEngine /\ walk = NoWalk /\ sim = NoSim /\ meas = NoMeas
    /\ lat = NoLat /\ est = NoEst
    /\ comb = NoComb /\ amp = NoAmp
    /\ cli = InitialCli

NextCLI ==
    \/ ParseTopStep
    \/ ParseRngStep
    \/ ParseSystemStep
    \/ ParseLatticeStep
    \/ ParseWavefunctionStep
    \/ ParseOrbitalsStep
    \/ SimulateStep

SpecCLI == InitCLI /\ [][NextCLI]_vars

\* C24: an input with an unrecognized key, a missing required key or a
\* malformed value in the top-level object, rng, system, lattice,
\* wavefunction or orbitals makes the driver write one line to stderr and
\* return 1 without running a simulation.
C24_RejectsInvalidInput ==
    cli.defects # {} =>
        /\ cli.pc = "exited"
        /\ cli.exit_code = 1
        /\ cli.stderr_lines = 1
        /\ cli.simulations = 0

\* what the code does: a value that is no object (except for orbitals), a
\* missing required key and a malformed value are rejected in that way
\* unless an assertion has ended the program before, and an input without
\* defects that reaches the end runs the simulations
C24_RejectsMissingOrMalformed ==
    /\ (/\ cli.pc # "aborted"
        /\ \E d \in cli.defects :
              /\ d[2] # "unrecognized key"
              /\ d # <<"orbitals", "not an object">>) =>
          /\ cli.pc = "exited"
          /\ cli.exit_code = 1
          /\ cli.stderr_lines = 1
          /\ cli.simulations = 0
    /\ (cli.pc = "exited" /\ cli.defects = {}) =>
          cli.exit_code = 0 /\ cli.simulations = 1

\* the boundary-conditions that the driver has read, when they are an array
\* of ndimensions positive integers
valid_boundary_conditions_read ==
    IF /\ cli.pc \in {"simulate", "exited", "aborted"}
       /\ Len(cli.input) = 6
       /\ cli.input[6][2][1].is_object
       /\ ensure_required(cli.input[6][2][1].keys, json_orbitals_required)
       /\ boundary_conditions_are_valid(cli.input[6][2][2], cli.ndimensions)
    THEN {cli.input[6][2][2].entries} ELSE {}

\* C25: a positive integer n given as an entry of boundary-conditions gives,
\* for its dimension, a BoundaryCondition with twist p = 1/n (periodic for
\* n = 1, antiperiodic for n = 2), and 1/n always meets the requirement
\* 0 <= p <= 1 of the constructor.
C25_TwistIsInverseOfEntry ==
    \A bcs \in valid_boundary_conditions_read :
       /\ cli.pc # "aborted"
       /\ Len(cli.boundary_conditions) = Len(bcs)
       /\ \A i \in 1..Len(bcs) :
             /\ cli.boundary_conditions[i] =
                    BoundaryCondition(twist_of_denominator(bcs[i].value))
             /\ BoundaryCondition_asserts(cli.boundary_conditions[i].m_p)

\* C25, as the code has it: the entry n becomes the twist n, which is
\* periodic for n = 1 and fails the assertion of the constructor for every
\* larger n
C25_TwistIsEntry ==
    \A bcs \in valid_boundary_conditions_read :
       /\ cli.pc = "aborted" <=> \E i \in 1..Len(bcs) : bcs[i].value > 1
       /\ \A i \in 1..Len(cli.boundary_conditions) :
             /\ cli.boundary_conditions[i].m_p = Rat(bcs[i].value)
             /\ cli.boundary_conditions[i].m_phase = UnitPhase(Zero)

\* ---------------------------------------------------------------------------
\* NDLattice<DIM> (src/NDLattice.hpp), for DIM = 1 and DIM = 2

MaxLatticeLength == 3
MaxBasisIndices == 2
MaxCoordinate == 2
MaxLatticeParticles == 3

RECURSIVE SeqProduct(_)
SeqProduct(s) == IF s = <<>> THEN 1 ELSE Head(s) * SeqProduct(Tail(s))

\* count_total_sites, lines 218-228
count_total_sites(length, basis_indices) == SeqProduct(length) * basis_indices

\* the default move axes, lines 81-94: one unit step per dimension, and a hop
\* of the basis index when there is more than one
default_move_axes(length, basis_indices) ==
    [i \in 1..Len(length) |->
        [bravais_site |-> [j \in 1..Len(length) |-> IF j = i THEN 1 ELSE 0],
         basis_index |-> 0]]
    \o (IF basis_indices > 1
        THEN <<[bravais_site |-> [j \in 1..Len(length) |-> 0], basis_index |-> 1]>>
        ELSE <<>>)

\* the constructor, lines 69-95
NDLattice(length_, basis_indices_) ==
    [m_total_sites |-> count_total_sites(length_, basis_indices_),
     length |-> length_,
     basis_indices |-> basis_indices_,
     offset |-> [i \in 1..Len(length_) |-> SeqProduct(SubSeq(length_, 1, i - 1))],
     basis_offset |-> SeqProduct(length_),
     move_axes |-> default_move_axes(length_, basis_indices_)]

\* site_is_valid, lines 125-134
NDLattice_site_is_valid(l, site) ==
    /\ \A i \in 1..Len(l.length) : ~(site.bs[i] >= l.length[i] \/ site.bs[i] < 0)
    /\ ~(site.basis_index >= l.basis_indices \/ site.basis_index < 0)

\* a site_from_index that takes the basis index from the least significant
\* digit
RECURSIVE site_from_index_loop(_, _, _, _)
site_from_index_basis_first(l, n) ==
    [site_from_index_loop(l, n \div l.basis_indices, 1, <<>>)
        EXCEPT !.basis_index = n % l.basis_indices]

\* the loop of site_from_index, lines 103-107, from dimension i on
site_from_index_loop(l, n, i, rv) ==
    IF i > Len(l.length) THEN [bs |-> rv, basis_index |-> n]
    ELSE site_from_index_loop(l, n \div l.length[i], i + 1,
                              Append(rv, n % l.length[i]))

NDLattice_site_from_index_asserts(l, n) == n < l.m_total_sites
NDLattice_site_from_index(l, n) == site_from_index_loop(l, n, 1, <<>>)

\* the loop of site_to_index, lines 117-119, from dimension i on
RECURSIVE site_to_index_loop(_, _, _, _)
site_to_index_loop(l, site, i, n) ==
    IF i > Len(l.length) THEN n
    ELSE site_to_index_loop(l, site, i + 1, n + site.bs[i] * l.offset[i])

\* site_to_index, lines 112-123
NDLattice_site_to_index(l, site) ==
    site_to_index_loop(l, site, 1, 0) + site.basis_index * l.basis_offset
NDLattice_site_to_index_asserts(l, site) ==
    /\ NDLattice_site_is_valid(l, site)
    /\ site = NDLattice_site_from_index(l, NDLattice_site_to_index(l, site))

\* a phase_t that is not finite, the result of a division by zero
PhaseNotFinite == [modulus |-> -1, turn |-> Zero]
PhaseOne == UnitPhase(Zero)

\* a *= b and a /= b of phase_t
phase_multiply(a, b) ==
    IF a = PhaseNotFinite \/ b = PhaseNotFinite THEN PhaseNotFinite
    ELSE IF a = PhaseZero \/ b = PhaseZero THEN PhaseZero
    ELSE UnitPhase(RAdd(a.turn, b.turn))
phase_divide(a, b) ==
    IF a = PhaseNotFinite \/ b = PhaseNotFinite \/ b = PhaseZero THEN PhaseNotFinite
    ELSE IF a = PhaseZero THEN PhaseZero
    ELSE UnitPhase(RSub(a.turn, b.turn))

\* the argument bcs of enforce_boundary: a null pointer, or one boundary
\* condition per dimension
NoBoundaryConditions == [given |-> FALSE, bc |-> <<>>]

\* a wrap that leaves the phase alone
wrap_without_phase(phase_change, bcs, dim) == phase_change

\* lines 156-157 and 161-162: the phase after one wrap
wrap_from_above(phase_change, bcs, dim) ==
    IF bcs.given THEN phase_multiply(phase_change, bcs.bc[dim].m_phase)
    ELSE phase_change
wrap_from_below(phase_change, bcs, dim) ==
    IF bcs.given THEN phase_divide(phase_change, bcs.bc[dim].m_phase)
    ELSE phase_change

\* the loops of lines 153-164 from dimension dim on; rv holds the site, the
\* phase and the number of iterations made
RECURSIVE enforce_boundary_loop(_, _, _, _)
enforce_boundary_loop(l, rv, bcs, dim) ==
    IF dim > Len(l.length) THEN rv
    ELSE IF rv.site.bs[dim] >= l.length[dim]
    THEN enforce_boundary_loop(l,
             [site |-> [rv.site EXCEPT !.bs[dim] = @ - l.length[dim]],
              phase_change |-> wrap_from_above(rv.phase_change, bcs, dim),
              iterations |-> rv.iterations + 1], bcs, dim)
    ELSE IF rv.site.bs[dim] < 0
    THEN enforce_boundary_loop(l,
             [site |-> [rv.site EXCEPT !.bs[dim] = @ + l.length[dim]],
              phase_change |-> wrap_from_below(rv.phase_change, bcs, dim),
              iterations |-> rv.iterations + 1], bcs, dim)
    ELSE enforce_boundary_loop(l, rv, bcs, dim + 1)

\* lines 168-170: the loop that lifts a negative basis index, then %=, which
\* on a value that is not negative is the remainder
RECURSIVE enforce_basis_index(_, _)
enforce_basis_index(l, rv) ==
    IF rv.site.basis_index < 0
    THEN enforce_basis_index(l,
             [rv EXCEPT !.site.basis_index = @ + l.basis_indices,
                        !.iterations = @ + 1])
    ELSE [rv EXCEPT !.site.basis_index = @ % l.basis_indices]

\* enforce_boundary, lines 150-174
NDLattice_enforce_boundary(l, site, bcs) ==
    enforce_basis_index(l,
        enforce_boundary_loop(l, [site |-> site, phase_change |-> PhaseOne,
                                  iterations |-> 0], bcs, 1))

\* asm_add_site_vector and asm_subtract_site_vector, lines 136-148
NDLattice_asm_add_site_vector(l, site, other, bcs) ==
    NDLattice_enforce_boundary(l,
        [site EXCEPT !.bs = [i \in 1..Len(l.length) |-> site.bs[i] + other[i]]], bcs)
NDLattice_asm_subtract_site_vector(l, site, other, bcs) ==
    NDLattice_enforce_boundary(l,
        [site EXCEPT !.bs = [i \in 1..Len(l.length) |-> site.bs[i] - other[i]]], bcs)

\* move_site, lines 181-190
move_site_asserts(l, move_axis, step_direction) ==
    /\ move_axis \in 1..Len(l.move_axes)
    /\ step_direction = -1 \/ step_direction = 1
move_site(l, site, move_axis, step_direction) ==
    NDLattice_enforce_boundary(l,
        [bs |-> [i \in 1..Len(l.length) |->
                    site.bs[i] + step_direction * l.move_axes[move_axis].bravais_site[i]],
         basis_index |-> site.basis_index
                            + step_direction * l.move_axes[move_axis].basis_index],
        NoBoundaryConditions).site

\* the position arguments of the lattice's caller: r[particle] is the site of
\* a particle, and a site is occupied when some particle is on it
site_is_occupied(r, site_index) == \E particle \in 1..Len(r) : r[particle] = site_index

\* the loop of plan_particle_move_to_nearby_empty_site_virtual ends at once
plan_stops_at_first_step(r, particle, site_index) == FALSE

\* line 212: the condition of the do-while loop
plan_continues(r, particle, site_index) ==
    site_is_occupied(r, site_index) /\ site_index # r[particle]

\* the assertions of move_site and site_to_index in an iteration of the loop
plan_iteration_asserts(l, c) ==
    /\ move_site_asserts(l, c.move_axis, c.step_direction)
    /\ NDLattice_site_to_index_asserts(
           l, move_site(l, c.site, c.move_axis, c.step_direction))

\* lines 208-214: one iteration of the loop, and the return when it ends
plan_iteration(l, c) ==
    LET site == move_site(l, c.site, c.move_axis, c.step_direction)
        site_index == NDLattice_site_to_index(l, site)
    IN  [c EXCEPT !.site = site, !.site_index = site_index, !.steps = @ + 1,
                  !.pc = IF plan_continues(c.r, c.particle, site_index)
                         THEN "loop" ELSE "returned"]

\* the lattices, sites, vectors, boundary conditions and positions drawn
LatticeLengths ==
    [1..1 -> 1..MaxLatticeLength] \cup [1..2 -> 1..MaxLatticeLength]
Lattices ==
    {NDLattice(length, basis_indices) :
        length \in LatticeLengths, basis_indices \in 1..MaxBasisIndices}
ArbitrarySites(l) ==
    [bs : [1..Len(l.length) -> -MaxCoordinate..MaxCoordinate],
     basis_index : -MaxBasisIndices..MaxBasisIndices + 1]
ValidSites(l) == {site \in ArbitrarySites(l) : NDLattice_site_is_valid(l, site)}
BravaisVectors(l) == [1..Len(l.length) -> -MaxCoordinate..MaxCoordinate]
Twists == {Zero, <<1, 3>>, <<1, 2>>}
BoundaryConditionsArguments(l) ==
    {NoBoundaryConditions}
       \cup [given : {TRUE},
             bc : [1..Len(l.length) -> {BoundaryCondition(p) : p \in Twists}]]
LatticePositions(l) ==
    {r \in UNION {[1..k -> 0..l.m_total_sites - 1] : k \in 1..MaxLatticeParticles} :
        \A i, j \in 1..Len(r) : i # j => r[i] # r[j]}

InitialLat(l) == [pc |-> "idle", lattice |-> l, call |-> [op |-> "none"]]
lat_accepts_call == lat.pc = "idle"
returned(l, call) == [pc |-> "returned", lattice |-> l.lattice, call |-> call]

SiteFromIndexCall ==
    /\ lat_accepts_call
    /\ \E n \in 0..lat.lattice.m_total_sites - 1 :
          /\ NDLattice_site_from_index_asserts(lat.lattice, n)
          /\ lat' = returned(lat, [op |-> "site_from_index", n |-> n,
                                   site |-> NDLattice_site_from_index(lat.lattice, n)])
    /\ UNCHANGED <<cm, walk, sim, meas, cli, est, comb, amp>>

SiteToIndexCall ==
    /\ lat_accepts_call
    /\ \E site \in ValidSites(lat.lattice) :
          /\ NDLattice_site_to_index_asserts(lat.lattice, site)
          /\ lat' = returned(lat, [op |-> "site_to_index", site |-> site,
                                   n |-> NDLattice_site_to_index(lat.lattice, site)])
    /\ UNCHANGED <<cm, walk, sim, meas, cli, est, comb, amp>>

EnforceBoundaryCall ==
    /\ lat_accepts_call
    /\ \E site \in ArbitrarySites(lat.lattice),
          bcs \in BoundaryConditionsArguments(lat.lattice) :
          lat' = returned(lat, [op |-> "enforce_boundary", site |-> site, bcs |-> bcs,
                                rv |-> NDLattice_enforce_boundary(lat.lattice, site, bcs)])
    /\ UNCHANGED <<cm, walk, sim, meas, cli, est, comb, amp>>

\* asm_add_site_vector on a valid site
AddSiteVectorCall ==
    /\ lat_accepts_call
    /\ \E site \in ValidSites(lat.lattice), other \in BravaisVectors(lat.lattice),
          bcs \in BoundaryConditionsArguments(lat.lattice) :
          lat' = returned(lat, [op |-> "asm_add_site_vector", site |-> site,
                                other |-> other, bcs |-> bcs,
                                rv |-> NDLattice_asm_add_site_vector(lat.lattice, site,
                                                                     other, bcs)])
    /\ UNCHANGED <<cm, walk, sim, meas, cli, est, comb, amp>>

\* asm_subtract_site_vector on the site that asm_add_site_vector has left,
\* with the same boundary conditions
SubtractSiteVectorCall ==
    /\ lat.pc = "returned" /\ lat.call.op = "asm_add_site_vector"
    /\ \E other \in BravaisVectors(lat.lattice) :
          lat' = returned(lat, [op |-> "asm_subtract_site_vector",
                                added |-> lat.call, other |-> other,
                                rv |-> NDLattice_asm_subtract_site_vector(
                                           lat.lattice, lat.call.rv.site, other,
                                           lat.call.bcs)])
    /\ UNCHANGED <<cm, walk, sim, meas, cli, est, comb, amp>>

\* lines 194-206: the axis and the direction are drawn and the walk starts
\* at the site of the particle
PlanMoveCall ==
    /\ lat_accepts_call
    /\ \E r \in LatticePositions(lat.lattice), move_axis \in 1..Len(lat.lattice.move_axes),
          direction_gen \in 0..1 :
          \E particle \in 1..Len(r) :
             /\ move_site_asserts(lat.lattice, move_axis, direction_gen * 2 - 1)
             /\ lat' = [pc |-> "planning", lattice |-> lat.lattice,
                        call |-> [op |-> "plan_particle_move_to_nearby_empty_site",
                                  pc |-> "loop", r |-> r, particle |-> particle,
                                  move_axis |-> move_axis,
                                  step_direction |-> direction_gen * 2 - 1,
                                  site |-> NDLattice_site_from_index(lat.lattice,
                                                                     r[particle]),
                                  site_index |-> r[particle], steps |-> 0]]
    /\ UNCHANGED <<cm, walk, sim, meas, cli, est, comb, amp>>

PlanMoveStep ==
    /\ lat.pc = "planning"
    /\ plan_iteration_asserts(lat.lattice, lat.call)
    /\ \E c \in {plan_iteration(lat.lattice, lat.call)} :
          lat' = [lat EXCEPT !.call = c,
                             !.pc = IF c.pc = "loop" THEN "planning" ELSE "returned"]
    /\ UNCHANGED <<cm, walk, sim, meas, cli, est, comb, amp>>

\* the caller has used what a call returned; the lattice is as it was built
CallerContinues ==
    /\ lat.pc = "returned"
    /\ lat' = InitialLat(lat.lattice)
    /\ UNCHANGED <<cm, walk, sim, meas, cli, est, comb, amp>>

InitLat ==
    /\ cm = DefaultEngine /\ walk = NoWalk /\ sim = NoSim /\ meas = NoMeas
    /\ cli = NoCli /\ est = NoEst
    /\ comb = NoComb /\ amp = NoAmp
    /\ \E l \in Lattices : lat = InitialLat(l)

NextLat ==
    \/ SiteFromIndexCall
    \/ SiteToIndexCall
    \/ EnforceBoundaryCall
    \/ AddSiteVectorCall
    \/ SubtractSiteVectorCall
    \/ PlanMoveCall
    \/ PlanMoveStep
    \/ CallerContinues

SpecLat == InitLat /\ [][NextLat]_vars

\* C26: site_from_index and site_to_index of NDLattice are mutually inverse
\* bijections between the indices 0 .. total_sites - 1 and the valid sites;
\* the first Bravais coordinate is the least significant digit of the index
\* and the basis index the most significant one, and total_sites is the
\* product of the lengths times basis_indices.
C26_SiteIndexBijection ==
    (lat.pc = "returned" /\ lat.call.op \in {"site_from_index", "site_to_index"}) =>
       \A l \in {lat.lattice} :
          /\ l.m_total_sites = SeqProduct(l.length) * l.basis_indices
          /\ Cardinality(ValidSites(l)) = l.m_total_sites
          /\ lat.call.op = "site_from_index" =>
                /\ NDLattice_site_is_valid(l, lat.call.site)
                /\ NDLattice_site_to_index(l, lat.call.site) = lat.call.n
                /\ lat.call.site.bs[1] = lat.call.n % l.length[1]
                /\ lat.call.site.basis_index = lat.call.n \div SeqProduct(l.length)
          /\ lat.call.op = "site_to_index" =>
                /\ lat.call.n \in 0..l.m_total_sites - 1
                /\ NDLattice_site_from_index(l, lat.call.n) = lat.call.site
                /\ \A other \in ValidSites(l) :
                      NDLattice_site_to_index(l, other) = lat.call.n
                         => other = lat.call.site

\* index 7 of the 2 x 3 lattice with two basis indices is the site (1, 0) of
\* basis index 1
C26_Witness ==
    /\ lat.pc = "returned" /\ lat.call.op = "site_from_index"
    /\ lat.lattice.length = <<2, 3>> /\ lat.lattice.basis_indices = 2
    /\ lat.call.n = 7
    /\ lat.call.site = [bs |-> <<1, 0>>, basis_index |-> 1]

\* the site (1, 2) of basis index 0 of that lattice has the index 5
C26_WitnessToIndex ==
    /\ lat.pc = "returned" /\ lat.call.op = "site_to_index"
    /\ lat.lattice.length = <<2, 3>> /\ lat.lattice.basis_indices = 2
    /\ lat.call.site = [bs |-> <<1, 2>>, basis_index |-> 0]
    /\ lat.call.n = 5

\* a phase raised to a signed wrap count
phase_power(phase, k) ==
    IF k = 0 THEN PhaseOne
    ELSE IF phase.modulus = 1 THEN UnitPhase(<<k * phase.turn[1], phase.turn[2]>>)
    ELSE IF k > 0 THEN PhaseZero
    ELSE PhaseNotFinite

\* the product over the dimensions from dim on of the phase of the boundary
\* condition raised to the signed number of times the coordinate wraps
RECURSIVE phase_of_wraps(_, _, _, _)
phase_of_wraps(l, site, bcs, dim) ==
    IF ~bcs.given \/ dim > Len(l.length) THEN PhaseOne
    ELSE phase_multiply(phase_power(bcs.bc[dim].m_phase, site.bs[dim] \div l.length[dim]),
                        phase_of_wraps(l, site, bcs, dim + 1))

\* enforce_boundary has returned a valid site with every coordinate and the
\* basis index reduced, and the phase of the wraps
enforce_boundary_reduces(l, site, bcs, rv) ==
    /\ NDLattice_site_is_valid(l, rv.site)
    /\ \A d \in 1..Len(l.length) : rv.site.bs[d] = site.bs[d] % l.length[d]
    /\ rv.site.basis_index = site.basis_index % l.basis_indices
    /\ rv.phase_change = phase_of_wraps(l, site, bcs, 1)

\* the subtraction has taken back the vector that was added
subtracts_what_was_added ==
    /\ lat.pc = "returned" /\ lat.call.op = "asm_subtract_site_vector"
    /\ lat.call.other = lat.call.added.other

\* some coordinate wraps across an open boundary when the vector is added
wraps_across_open_boundary(l, added) ==
    /\ added.bcs.given
    /\ \E d \in 1..Len(l.length) :
          /\ added.bcs.bc[d].m_phase = PhaseZero
          /\ (added.site.bs[d] + added.other[d]) \div l.length[d] # 0

\* C27: for a site with arbitrary integer coordinates and basis index,
\* enforce_boundary terminates and yields a valid site whose coordinates are
\* reduced modulo the lengths and whose basis index is reduced modulo
\* basis_indices; the phase it returns is the product over the dimensions of
\* the phase of the boundary condition raised to the signed wrap count, and
\* 1 without boundary conditions; adding a Bravais vector to a valid site and
\* then subtracting it gives the original site with overall phase 1.
C27_BoundaryClosure ==
    /\ (lat.pc = "returned" /\ lat.call.op = "enforce_boundary") =>
          /\ enforce_boundary_reduces(lat.lattice, lat.call.site, lat.call.bcs,
                                      lat.call.rv)
          /\ ~lat.call.bcs.given => lat.call.rv.phase_change = PhaseOne
    /\ subtracts_what_was_added =>
          /\ lat.call.rv.site = lat.call.added.site
          /\ phase_multiply(lat.call.added.rv.phase_change,
                            lat.call.rv.phase_change) = PhaseOne

\* C27, as the code has it: the overall phase is 1 unless a coordinate wraps
\* across an open boundary, whose phase 0 the code divides by
C27_BoundaryClosureUnlessOpen ==
    /\ (lat.pc = "returned" /\ lat.call.op = "enforce_boundary") =>
          /\ enforce_boundary_reduces(lat.lattice, lat.call.site, lat.call.bcs,
                                      lat.call.rv)
          /\ ~lat.call.bcs.given => lat.call.rv.phase_change = PhaseOne
    /\ subtracts_what_was_added =>
          /\ lat.call.rv.site = lat.call.added.site
          /\ phase_multiply(lat.call.added.rv.phase_change,
                            lat.call.rv.phase_change)
                = IF wraps_across_open_boundary(lat.lattice, lat.call.added)
                  THEN PhaseNotFinite ELSE PhaseOne

\* the number of sites on the line of a move axis: the length of its
\* dimension, or basis_indices for the axis that hops the basis index
sites_on_axis(l, move_axis) ==
    IF move_axis <= Len(l.length) THEN l.length[move_axis] ELSE l.basis_indices

plan_is_running ==
    lat.pc = "planning" /\ lat.call.op = "plan_particle_move_to_nearby_empty_site"
plan_has_returned ==
    lat.pc = "returned" /\ lat.call.op = "plan_particle_move_to_nearby_empty_site"

\* C28: plan_particle_move_to_nearby_empty_site ends for every configuration
\* and every random choice, also when every other site on the line is
\* occupied: it makes at most L_d steps along a Bravais axis and at most
\* basis_indices steps along the basis axis, and it returns the index of a
\* site that is unoccupied or the particle's own, never the site of another
\* particle.
C28_PlanTerminates ==
    /\ plan_is_running =>
          /\ lat.call.steps < sites_on_axis(lat.lattice, lat.call.move_axis)
          /\ plan_iteration_asserts(lat.lattice, lat.call)
    /\ plan_has_returned =>
          /\ lat.call.steps >= 1
          /\ lat.call.steps <= sites_on_axis(lat.lattice, lat.call.move_axis)
          /\ lat.call.site_index \in 0..lat.lattice.m_total_sites - 1
          /\ \/ lat.call.site_index = lat.call.r[lat.call.particle]
             \/ ~site_is_occupied(lat.call.r, lat.call.site_index)
          /\ \A other \in 1..Len(lat.call.r) :
                other # lat.call.particle => lat.call.r[other] # lat.call.site_index

\* on the chain of three sites that are all occupied the walk comes back to
\* the particle's own site after three steps
C28_Witness ==
    /\ plan_has_returned
    /\ lat.lattice.length = <<3>> /\ lat.lattice.basis_indices = 1
    /\ lat.call.r = <<1, 2, 0>> /\ lat.call.particle = 1
    /\ lat.call.steps = 3 /\ lat.call.site_index = 1

\* along the basis axis with both basis indices occupied the walk comes back
\* after two steps
C28_WitnessBasisAxis ==
    /\ plan_has_returned
    /\ lat.lattice.length = <<2>> /\ lat.lattice.basis_indices = 2
    /\ lat.call.move_axis = 2
    /\ lat.call.r = <<1, 3>> /\ lat.call.particle = 1
    /\ lat.call.steps = 2 /\ lat.call.site_index = 1

\* the walk passes an occupied site and stops on the empty one behind it
C28_WitnessEmptySite ==
    /\ plan_has_returned
    /\ lat.lattice.length = <<3>> /\ lat.lattice.basis_indices = 1
    /\ lat.call.r = <<0, 1>> /\ lat.call.particle = 1 /\ lat.call.step_direction = 1
    /\ lat.call.steps = 2 /\ lat.call.site_index = 2

\* ---------------------------------------------------------------------------
\* RunningEstimate<T> and BinnedEstimate<T> (src/vmc-core/RunningEstimate.hpp,
\* src/vmc-core/BinnedEstimate.hpp), for an integral T

MaxValues == 8
MaxEstimateValue == 1
EstimateValues == 0..MaxEstimateValue

\* an accumulator_set with the statistics mean, sum and count
accumulator_t == [count |-> 0, sum |-> 0]
accumulate(acc, value) == [count |-> acc.count + 1, sum |-> acc.sum + value]
accumulators_count(acc) == acc.count
accumulators_sum(acc) == acc.sum
\* the mean is the sum over the count; without a sample it is not a number
accumulators_mean(acc) ==
    IF acc.count = 0 THEN <<0, 0>> ELSE Norm(acc.sum, acc.count)

\* a reset that starts both accumulators afresh
reset_clears_both(e) ==
    [e EXCEPT !.m_recent_acc = accumulator_t, !.m_cumulative_acc = accumulator_t]

\* RunningEstimate::add_value, lines 30-34
RunningEstimate_add_value(e, value) ==
    [e EXCEPT !.m_recent_acc = accumulate(@, value),
              !.m_cumulative_acc = accumulate(@, value)]

\* RunningEstimate::reset, lines 75-78
reset(e) == [e EXCEPT !.m_recent_acc = accumulator_t]

get_num_recent_values(e) == accumulators_count(e.m_recent_acc)
get_num_cumulative_values(e) == accumulators_count(e.m_cumulative_acc)
get_cumulative_total_value(e) == accumulators_sum(e.m_cumulative_acc)

\* get_num_values and get_total_value, which BinnedEstimate calls and
\* RunningEstimate.hpp does not define: the number and the total of all the
\* values added, which is what the assertions of lines 28-29 need
get_num_values(e) == get_num_cumulative_values(e)
get_total_value(e) == get_cumulative_total_value(e)

\* x & y of two unsigned values
RECURSIVE BitAnd(_, _)
BitAnd(x, y) ==
    IF x = 0 \/ y = 0 THEN 0
    ELSE (x % 2) * (y % 2) + 2 * BitAnd(x \div 2, y \div 2)

\* 1 << i
RECURSIVE ShiftOne(_)
ShiftOne(i) == IF i = 0 THEN 1 ELSE 2 * ShiftOne(i - 1)

\* x is even
is_even(x) == x % 2 = 0

\* is_just_below_a_power_of_two, lines 10-13; x + 1 does not wrap for the
\* numbers of values that occur
is_just_below_a_power_of_two(x) == BitAnd(x, x + 1) = 0

\* BinnedSum::BinnedSum, lines 49-54
BinnedSum(current_sum_) ==
    [current_sum |-> current_sum_, cumulative_sum |-> 0, cumulative_sum_squared |-> 0]

\* a new bin level that starts with an empty current_sum
create_empty_bin_level(e) ==
    IF BitAnd(get_num_values(e), get_num_values(e) + 1) = 0
    THEN [e EXCEPT !.binlevel_data = Append(@, BinnedSum(0))]
    ELSE e

\* lines 21-23: a new bin level if necessary
create_bin_level(e) ==
    IF is_just_below_a_power_of_two(get_num_values(e))
    THEN [e EXCEPT !.binlevel_data = Append(@, BinnedSum(get_total_value(e)))]
    ELSE e

\* the assertions of lines 28-29, after the value has been added
binning_asserts(e) ==
    /\ ShiftOne(Len(e.binlevel_data)) > get_num_values(e)
    /\ Len(e.binlevel_data) >= 1
    /\ ShiftOne(Len(e.binlevel_data) - 1) <= get_num_values(e)

\* lines 31-32
add_to_current_sums(data, value) ==
    [i \in 1..Len(data) |-> [data[i] EXCEPT !.current_sum = @ + value]]

\* the level at which the loop of lines 34-41 breaks: the lowest bit set in
\* the number of values (levels are numbered from 0)
RECURSIVE last_folded_level(_, _)
last_folded_level(num_values, i) ==
    IF BitAnd(num_values, ShiftOne(i)) # 0 THEN i
    ELSE last_folded_level(num_values, i + 1)

\* line 35, for every level the loop reaches
folding_asserts(e) ==
    last_folded_level(get_num_values(e), 0) < Len(e.binlevel_data)

\* a folding of the levels whose bit is set in the number of values
fold_levels_of_set_bits(data, num_values) ==
    [i \in 1..Len(data) |->
        IF BitAnd(num_values, ShiftOne(i - 1)) # 0
        THEN [current_sum |-> 0,
              cumulative_sum |-> data[i].cumulative_sum + data[i].current_sum,
              cumulative_sum_squared |-> data[i].cumulative_sum_squared
                                            + data[i].current_sum * data[i].current_sum]
        ELSE data[i]]

\* lines 34-41
fold_current_sums(data, num_values) ==
    [i \in 1..Len(data) |->
        IF i - 1 <= last_folded_level(num_values, 0)
        THEN [current_sum |-> 0,
              cumulative_sum |-> data[i].cumulative_sum + data[i].current_sum,
              cumulative_sum_squared |-> data[i].cumulative_sum_squared
                                            + data[i].current_sum * data[i].current_sum]
        ELSE data[i]]

\* BinnedEstimate::add_value, lines 19-42; pc tells whether an assertion has
\* ended the program
BinnedEstimate_add_value(e, value) ==
    LET added == RunningEstimate_add_value(create_bin_level(e), value)
    IN  IF ~binning_asserts(added) \/ ~folding_asserts(added)
        THEN [added EXCEPT !.pc = "aborted"]
        ELSE [added EXCEPT !.binlevel_data =
                 fold_current_sums(add_to_current_sums(@, value), get_num_values(added))]

EstimateKinds == {"RunningEstimate", "BinnedEstimate"}

\* an estimate as constructed, with the calls made on it counted and the
\* last call recorded
InitialEst(kind) ==
    [pc |-> "idle", kind |-> kind,
     m_recent_acc |-> accumulator_t, m_cumulative_acc |-> accumulator_t,
     binlevel_data |-> <<>>,
     add_value_calls |-> 0, add_value_calls_since_reset |-> 0,
     values |-> <<>>,
     last |-> [op |-> "none"]]

\* the accumulators and the bin levels before a call
before_call(e) ==
    [m_recent_acc |-> e.m_recent_acc, m_cumulative_acc |-> e.m_cumulative_acc,
     levels |-> Len(e.binlevel_data), binlevel_data |-> e.binlevel_data]

AddValueCall ==
    /\ est.pc = "idle"
    /\ est.add_value_calls < MaxValues
    /\ \E value \in EstimateValues :
          est' = [(IF est.kind = "BinnedEstimate"
                   THEN BinnedEstimate_add_value(est, value)
                   ELSE RunningEstimate_add_value(est, value))
                    EXCEPT !.add_value_calls = @ + 1,
                           !.add_value_calls_since_reset = @ + 1,
                           !.values = Append(@, value),
                           !.last = [op |-> "add_value", value |-> value,
                                     before |-> before_call(est)]]
    /\ UNCHANGED <<cm, walk, sim, meas, cli, lat, comb, amp>>

ResetCall ==
    /\ est.pc = "idle"
    /\ est' = [reset(est) EXCEPT !.add_value_calls_since_reset = 0,
                                 !.last = [op |-> "reset", value |-> 0,
                                           before |-> before_call(est)]]
    /\ UNCHANGED <<cm, walk, sim, meas, cli, lat, comb, amp>>

InitEst ==
    /\ cm = DefaultEngine /\ walk = NoWalk /\ sim = NoSim /\ meas = NoMeas
    /\ cli = NoCli /\ lat = NoLat
    /\ comb = NoComb /\ amp = NoAmp
    /\ \E kind \in EstimateKinds : est = InitialEst(kind)

NextEst ==
    \/ AddValueCall
    \/ ResetCall

SpecEst == InitEst /\ [][NextEst]_vars

est_has_called(op) == est.pc \in {"idle", "aborted"} /\ est.last.op = op

\* C29: reset of RunningEstimate clears the recent accumulator only: the
\* recent count is 0 afterwards and the cumulative count, sum and mean are
\* as before; add_value adds its value to both accumulators; the cumulative
\* count is the number of add_value calls ever made and the recent count the
\* number of those made since the last reset.
C29_ResetClearsRecentOnly ==
    /\ est.pc \in {"idle", "aborted"} =>
          /\ get_num_cumulative_values(est) = est.add_value_calls
          /\ get_num_recent_values(est) = est.add_value_calls_since_reset
    /\ est_has_called("reset") =>
          /\ get_num_recent_values(est) = 0
          /\ est.m_recent_acc = accumulator_t
          /\ est.m_cumulative_acc = est.last.before.m_cumulative_acc
          /\ accumulators_mean(est.m_cumulative_acc)
                = accumulators_mean(est.last.before.m_cumulative_acc)
    /\ est_has_called("add_value") =>
          /\ est.m_recent_acc = accumulate(est.last.before.m_recent_acc, est.last.value)
          /\ est.m_cumulative_acc
                = accumulate(est.last.before.m_cumulative_acc, est.last.value)

\* three values, a reset, and one more value: four values in all, one of
\* them recent
C29_Witness ==
    /\ est_has_called("add_value")
    /\ get_num_cumulative_values(est) = 4
    /\ get_num_recent_values(est) = 1
    /\ accumulators_sum(est.m_cumulative_acc) # accumulators_sum(est.m_recent_acc)

\* a reset after three values
C29_WitnessReset ==
    /\ est_has_called("reset")
    /\ get_num_cumulative_values(est) = 3
    /\ accumulators_sum(est.m_cumulative_acc) = 2
    /\ est.last.before.m_recent_acc.count = 3

IsPowerOfTwo(n) == \E e \in 0..n : ShiftOne(e) = n

\* the last add_value of a BinnedEstimate has added a bin level
added_bin_level == Len(est.binlevel_data) = est.last.before.levels + 1
binned_has_added_value == est.kind = "BinnedEstimate" /\ est_has_called("add_value")

\* C30: add_value of BinnedEstimate adds a new bin level while it processes
\* the k-th value (counted from 1) exactly when k + 1 is a power of two.
C30_LevelWhenNextIsPowerOfTwo ==
    binned_has_added_value =>
       (added_bin_level <=> IsPowerOfTwo(est.add_value_calls + 1))

\* C30, as the code has it: the bin level is added exactly when k is a power
\* of two, that is when the number k - 1 of the values added before is just
\* below a power of two; the assertions of add_value hold
C30_LevelWhenPowerOfTwo ==
    binned_has_added_value =>
       /\ added_bin_level <=> IsPowerOfTwo(est.add_value_calls)
       /\ ~added_bin_level => Len(est.binlevel_data) = est.last.before.levels
       /\ est.pc = "idle"

\* the fourth value adds the third bin level, and the third value adds none
C30_Witness ==
    /\ binned_has_added_value
    /\ est.add_value_calls = 4
    /\ added_bin_level /\ Len(est.binlevel_data) = 3

C30_WitnessNoLevel ==
    /\ binned_has_added_value
    /\ est.add_value_calls = 3
    /\ ~added_bin_level /\ Len(est.binlevel_data) = 2

\* bin level i (counted from 0) as the last add_value found it: a level
\* created by that call starts from the total of the values added before
level_before(i) ==
    IF i + 1 <= est.last.before.levels THEN est.last.before.binlevel_data[i + 1]
    ELSE BinnedSum(accumulators_sum(est.last.before.m_cumulative_acc))

\* the last add_value has folded level i, or has only added its value to it
level_is_folded(i) ==
    \A b \in {level_before(i)} :
       est.binlevel_data[i + 1] =
          [current_sum |-> 0,
           cumulative_sum |-> b.cumulative_sum + b.current_sum + est.last.value,
           cumulative_sum_squared |->
              b.cumulative_sum_squared
                 + (b.current_sum + est.last.value) * (b.current_sum + est.last.value)]
level_is_kept(i) ==
    est.binlevel_data[i + 1] = [level_before(i) EXCEPT !.current_sum = @ + est.last.value]

binned_add_value_has_returned == binned_has_added_value /\ est.pc = "idle"

\* C31: in add_value of BinnedEstimate, after the k-th value has been added
\* to the current_sum of every bin level, level i folds its current_sum into
\* cumulative_sum and cumulative_sum_squared and resets it to 0 exactly when
\* bit i of k is set.
C31_FoldsWhenBitIsSet ==
    binned_add_value_has_returned =>
       \A i \in 0..Len(est.binlevel_data) - 1 :
          IF BitAnd(est.add_value_calls, ShiftOne(i)) # 0
          THEN level_is_folded(i) ELSE level_is_kept(i)

\* C31, as the code has it: level i is folded exactly when k is a multiple
\* of 2^i, that is for every level up to the lowest bit set in k
C31_FoldsWhenMultiple ==
    binned_add_value_has_returned =>
       \A i \in 0..Len(est.binlevel_data) - 1 :
          IF est.add_value_calls % ShiftOne(i) = 0
          THEN level_is_folded(i) ELSE level_is_kept(i)

\* the sixth value, with values that are not zero: level 0 and level 1 are
\* folded and level 2, whose bit is set in 6, is not
C31_Witness ==
    /\ binned_add_value_has_returned
    /\ est.add_value_calls = 6
    /\ est.values = <<1, 1, 1, 1, 1, 1>>
    /\ level_is_folded(0) /\ level_is_folded(1)
    /\ level_is_kept(2) /\ ~level_is_folded(2)

\* the sum of the values a + 1 .. b of a sequence
RECURSIVE SumOfValues(_, _, _)
SumOfValues(values, a, b) ==
    IF a >= b THEN 0 ELSE values[b] + SumOfValues(values, a, b - 1)

\* the sum of the squares of the sums of the first blocks complete blocks of
\* size values
RECURSIVE SumOfSquaredBlocks(_, _, _)
SumOfSquaredBlocks(values, size, blocks) ==
    IF blocks = 0 THEN 0
    ELSE SumOfValues(values, (blocks - 1) * size, blocks * size)
            * SumOfValues(values, (blocks - 1) * size, blocks * size)
         + SumOfSquaredBlocks(values, size, blocks - 1)

\* C37: after n >= 1 calls of add_value of BinnedEstimate the number L of
\* bin levels satisfies 2^(L-1) <= n < 2^L, the folding loop never indexes
\* past the last level, and for every level i cumulative_sum is the sum of
\* the first floor(n / 2^i) * 2^i values, current_sum the sum of the
\* remaining n mod 2^i values, and cumulative_sum_squared the sum of the
\* squares of the sums of the complete blocks of 2^i consecutive values.
C37_BinLevels ==
    (est.kind = "BinnedEstimate" /\ est.pc \in {"idle", "aborted"}
        /\ est.add_value_calls >= 1) =>
       \A n \in {est.add_value_calls}, L \in {Len(est.binlevel_data)} :
          /\ est.pc = "idle"
          /\ L >= 1 /\ ShiftOne(L - 1) <= n /\ n < ShiftOne(L)
          /\ last_folded_level(n, 0) < L
          /\ \A i \in 0..L - 1 :
                \A size \in {ShiftOne(i)} :
                   /\ est.binlevel_data[i + 1].cumulative_sum
                         = SumOfValues(est.values, 0, (n \div size) * size)
                   /\ est.binlevel_data[i + 1].current_sum
                         = SumOfValues(est.values, (n \div size) * size, n)
                   /\ est.binlevel_data[i + 1].cumulative_sum_squared
                         = SumOfSquaredBlocks(est.values, size, n \div size)

\* seven values: three levels, the last of which holds one block of four
\* values and three values more
C37_Witness ==
    /\ binned_add_value_has_returned
    /\ est.values = <<1, 0, 1, 1, 1, 1, 0>>
    /\ Len(est.binlevel_data) = 3
    /\ est.binlevel_data[3] =
          [current_sum |-> 2, cumulative_sum |-> 3, cumulative_sum_squared |-> 9]
    /\ est.binlevel_data[2].cumulative_sum_squared = 9

\* the steps the driver has performed with a valid probability ratio: the
\* ratios computed, less those that raised the error and the one that is
\* still to be decided
valid_steps_performed ==
    sim.walk.n_compute - sim.n_thrown - (IF sim.pc = "ratio" THEN 1 ELSE 0)

driver_exists == sim.pc # "none"

\* C38: after any sequence of driver operations the counters satisfy
\* 0 <= steps_fully_rejected <= steps - steps_accepted and
\* steps_accepted <= steps, they never decrease, and steps is the number of
\* steps with a valid probability ratio performed so far, the initialization
\* sweeps of the constructor included.
C38_Counters ==
    /\ [](driver_exists =>
            /\ 0 <= sim.m_steps_fully_rejected
            /\ sim.m_steps_fully_rejected <= sim.m_steps - sim.m_steps_accepted
            /\ sim.m_steps_accepted <= sim.m_steps
            /\ sim.m_steps = valid_steps_performed)
    /\ [][driver_exists =>
            /\ sim'.m_steps >= sim.m_steps
            /\ sim'.m_steps_accepted >= sim.m_steps_accepted
            /\ sim'.m_steps_fully_rejected >= sim.m_steps_fully_rejected]_vars

\* two initialization sweeps and three steps of iterate, one of which raised
\* the error: four steps counted, with one accepted and one fully rejected
\* among them
C38_Witness ==
    /\ driver_exists
    /\ sim.initialization_sweeps = 2 /\ sim.caller = "iterate"
    /\ sim.walk.n_compute = 5 /\ sim.n_thrown = 1
    /\ sim.m_steps = 4
    /\ sim.m_steps_accepted >= 1 /\ sim.m_steps_fully_rejected >= 1
    /\ sim.m_steps_fully_rejected < sim.m_steps - sim.m_steps_accepted

\* ---------------------------------------------------------------------------
\* random_combination (src/vmc-core/random-combination.cpp)

MaxCombinationN == 4

\* rng.random_small_uint(k): an unsigned integer below k
random_small_uint(k) == 0..k - 1

\* lines 12-16
random_combination_asserts(v, r, n, keep) ==
    /\ n > 0 /\ r > 0 /\ r <= n /\ keep <= n
    /\ Len(v) >= keep

\* lines 18-25: the special case, which returns 0 .. r - 1
random_combination_is_special(r, n, keep) == n = r /\ keep = 0
random_combination_special(r) == [i \in 1..r |-> i - 1]

\* line 32
kept_entries_assert(v, vs) == Len(v) = Cardinality(vs)

\* an iteration that appends what the generator has drawn
random_combination_appends_draw(c, x) ==
    [c EXCEPT !.v = Append(@, x), !.vs = @ \cup {x}, !.k = @ + 1,
              !.draws = Append(@, x)]

\* lines 34-40: one iteration of the loop with the outcome x of the generator
random_combination_iteration(c, x) ==
    LET a == IF x \in c.vs THEN c.k ELSE x
    IN  [c EXCEPT !.v = Append(@, a), !.vs = @ \cup {a}, !.k = @ + 1,
                  !.draws = Append(@, x)]

\* lines 34 and 42: the loop is left when k reaches n, and the size of v is
\* asserted
random_combination_leaves_loop(c) ==
    IF c.k < c.n THEN c
    ELSE [c EXCEPT !.pc = IF Len(c.v) = c.r THEN "returned" ELSE "aborted"]

\* random_combination up to the first iteration of its loop
random_combination(v, r, n, keep) ==
    LET input == [v |-> v, r |-> r, n |-> n, keep |-> keep]
    IN  IF random_combination_is_special(r, n, keep)
        THEN [pc |-> "returned", input |-> input, v |-> random_combination_special(r),
              vs |-> {}, r |-> r, n |-> n, k |-> 0, draws |-> <<>>]
        ELSE random_combination_leaves_loop(
                 [pc |-> "loop", input |-> input, v |-> SubSeq(v, 1, keep),
                  vs |-> SeqToSet(SubSeq(v, 1, keep)), r |-> r, n |-> n,
                  k |-> n - r + keep, draws |-> <<>>])

CombinationVectors(n) == UNION {[1..len -> 0..n - 1] : len \in 0..n}

RandomCombinationCall ==
    /\ comb.pc = "idle"
    /\ \E n \in 1..MaxCombinationN :
          \E r \in 1..n, keep \in 0..n, v \in CombinationVectors(n) :
             /\ random_combination_asserts(v, r, n, keep)
             /\ random_combination_is_special(r, n, keep)
                   \/ kept_entries_assert(SubSeq(v, 1, keep),
                                          SeqToSet(SubSeq(v, 1, keep)))
             /\ comb' = random_combination(v, r, n, keep)
    /\ UNCHANGED <<cm, walk, sim, meas, cli, lat, est, amp>>

RandomCombinationStep ==
    /\ comb.pc = "loop"
    /\ comb.k > 0
    /\ \E x \in random_small_uint(comb.k) :
          comb' = random_combination_leaves_loop(random_combination_iteration(comb, x))
    /\ UNCHANGED <<cm, walk, sim, meas, cli, lat, est, amp>>

\* the caller has taken the combination
RandomCombinationReturns ==
    /\ comb.pc = "returned"
    /\ comb' = [pc |-> "idle"]
    /\ UNCHANGED <<cm, walk, sim, meas, cli, lat, est, amp>>

InitRC ==
    /\ cm = DefaultEngine /\ walk = NoWalk /\ sim = NoSim /\ meas = NoMeas
    /\ cli = NoCli /\ lat = NoLat /\ est = NoEst /\ amp = NoAmp
    /\ comb = [pc |-> "idle"]

NextRC ==
    \/ RandomCombinationCall
    \/ RandomCombinationStep
    \/ RandomCombinationReturns

SpecRC == InitRC /\ [][NextRC]_vars

is_combination(v, r, n) ==
    /\ Len(v) = r
    /\ \A i, j \in 1..Len(v) : i # j => v[i] # v[j]
    /\ \A i \in 1..Len(v) : v[i] < n

\* the first keep entries of v are pairwise distinct and smaller than bound
kept_entries_are_below(v, keep, bound) ==
    /\ keep <= Len(v)
    /\ \A i, j \in 1..keep : i # j => v[i] # v[j]
    /\ \A i \in 1..keep : v[i] < bound

random_combination_has_ended == comb.pc \in {"returned", "aborted"}

random_combination_result_is_right ==
    /\ comb.pc = "returned"
    /\ is_combination(comb.v, comb.input.r, comb.input.n)
    /\ SubSeq(comb.v, 1, comb.input.keep) = SubSeq(comb.input.v, 1, comb.input.keep)

\* C40: random_combination(v, r, n, rng, keep), called with 0 < r <= n and
\* with the first keep entries of v pairwise distinct and smaller than n,
\* returns with v of size exactly r, whose entries are pairwise distinct and
\* all smaller than n and whose first keep entries are unchanged, for every
\* outcome of the random number generator (no more than r entries being
\* kept, as a result of size r with the kept entries in it requires).
C40_RandomCombination ==
    (/\ random_combination_has_ended
     /\ comb.input.keep <= comb.input.r
     /\ kept_entries_are_below(comb.input.v, comb.input.keep, comb.input.n)) =>
       random_combination_result_is_right

\* C40, as the code has it: the result is a combination when no more than r
\* entries are kept and every kept entry is smaller than n - r + keep, the
\* first value that the loop may append by itself
C40_RandomCombinationOfSmallKept ==
    (/\ random_combination_has_ended
     /\ comb.input.keep <= comb.input.r
     /\ kept_entries_are_below(comb.input.v, comb.input.keep,
                               comb.input.n - comb.input.r + comb.input.keep)) =>
       random_combination_result_is_right

\* 0 and 3 are kept of four values and a third is asked for: the generator
\* draws 0, which is taken, and the loop appends 3 a second time
C40_DuplicateOfKeptEntry ==
    /\ comb.pc = "returned"
    /\ comb.input = [v |-> <<0, 3>>, r |-> 3, n |-> 4, keep |-> 2]
    /\ comb.draws = <<0>>
    /\ comb.v = <<0, 3, 3>>

\* nothing kept: three of four values after three draws
C40_Witness ==
    /\ comb.pc = "returned"
    /\ comb.input.n = 4 /\ comb.input.r = 3 /\ comb.input.keep = 0
    /\ comb.draws = <<0, 0, 2>>
    /\ comb.v = <<0, 2, 3>>


(***************************************************************************)
(* The D-metal and RVB wave-function amplitudes and the engines they hold.  *)
(* OrbitalDefinitions and the base classes of the amplitudes are not among  *)
(* the sources: orbitals are tables from a site to the column of a          *)
(* particle on that site, and the base class calls the _ method of the      *)
(* family with no move in progress for a move, and with one in progress for *)
(* finish and cancel.  Sites are numbered 1..NSites here and 0..NSites - 1  *)
(* by the lattice.                                                          *)
(***************************************************************************)

\* OrbitalDefinitions::at_position of the four orbital sets of a D-metal
\* amplitude with one particle of each species
orbital_at_position(orbital, site) ==
    CASE orbital = "d1" -> <<One, Rat(site)>>
      [] orbital = "d2" -> <<Rat(site), Rat(2)>>
      [] orbital = "f_up" -> <<Rat(site)>>
      [] orbital = "f_down" -> <<Rat(site - 2)>>

\* the calls an amplitude makes on its engines during a move and its finish
\* or cancel, in order
EngineCall(engine_, op_, index_) == [engine |-> engine_, op |-> op_, index |-> index_]

\* DMetalWavefunctionAmplitude::reinitialize for one up and one down particle
DMetal_reinitialize(r) ==
    LET M == get_N_filled(r, 1)
        N == get_N_filled(r, 1) + get_N_filled(r, 2)
        site_of_column(c) == IF c <= M THEN r[1][c] ELSE r[2][c - M]
    IN  [kind |-> "DMetal",
         pc |-> "ready",
         r |-> r,
         m_particle_moved_is_up |-> FALSE,
         m_cmat_d1 |-> Release(CeperleyMatrix(
             [i \in 1..N |-> [c \in 1..N |-> orbital_at_position("d1", site_of_column(c))[i]]], FALSE)),
         m_cmat_d2 |-> Release(CeperleyMatrix(
             [i \in 1..N |-> [c \in 1..N |-> orbital_at_position("d2", site_of_column(c))[i]]], FALSE)),
         m_cmat_f_up |-> Release(CeperleyMatrix(
             [i \in 1..M |-> [c \in 1..M |-> orbital_at_position("f_up", r[1][c])[i]]], FALSE)),
         m_cmat_f_down |-> Release(CeperleyMatrix(
             [i \in 1..N - M |-> [c \in 1..N - M |-> orbital_at_position("f_down", r[2][c])[i]]], FALSE)),
         calls |-> <<>>]

DMetal_move_particle_asserts(a, particle, new_site_index) ==
    /\ particle_is_valid(a.r, particle)
    /\ new_site_index \in Sites
    /\ update_position_asserts(a.r, particle, new_site_index)

\* a move_particle_ that updates both f engines
DMetal_move_particle_updates_both_f(a, particle, new_site_index) ==
    LET M == get_N_filled(a.r, 1)
        moved_is_up == particle.species = 1
        particle_column_index == IF moved_is_up THEN particle.index ELSE particle.index + M
    IN  [a EXCEPT
            !.pc = "moved",
            !.r = update_position(a.r, particle, new_site_index),
            !.m_particle_moved_is_up = moved_is_up,
            !.m_cmat_d1 = update_column(@, particle_column_index,
                                        orbital_at_position("d1", new_site_index)),
            !.m_cmat_d2 = update_column(@, particle_column_index,
                                        orbital_at_position("d2", new_site_index)),
            !.m_cmat_f_up = update_column(@, particle.index,
                                          orbital_at_position("f_up", new_site_index)),
            !.m_cmat_f_down = update_column(@, particle.index,
                                            orbital_at_position("f_down", new_site_index)),
            !.calls = <<EngineCall("d1", "update_column", particle_column_index),
                        EngineCall("d2", "update_column", particle_column_index),
                        EngineCall("f_up", "update_column", particle.index),
                        EngineCall("f_down", "update_column", particle.index)>>]

\* DMetalWavefunctionAmplitude::move_particle_
DMetal_move_particle_(a, particle, new_site_index) ==
    LET M == get_N_filled(a.r, 1)
        moved_is_up == particle.species = 1
        particle_column_index == IF moved_is_up THEN particle.index ELSE particle.index + M
    IN  [a EXCEPT
            !.pc = "moved",
            !.r = update_position(a.r, particle, new_site_index),
            !.m_particle_moved_is_up = moved_is_up,
            !.m_cmat_d1 = update_column(@, particle_column_index,
                                        orbital_at_position("d1", new_site_index)),
            !.m_cmat_d2 = update_column(@, particle_column_index,
                                        orbital_at_position("d2", new_site_index)),
            !.m_cmat_f_up = IF moved_is_up
                            THEN update_column(@, particle.index,
                                               orbital_at_position("f_up", new_site_index))
                            ELSE @,
            !.m_cmat_f_down = IF moved_is_up THEN @
                              ELSE update_column(@, particle.index,
                                                 orbital_at_position("f_down", new_site_index)),
            !.calls = <<EngineCall("d1", "update_column", particle_column_index),
                        EngineCall("d2", "update_column", particle_column_index),
                        EngineCall(IF moved_is_up THEN "f_up" ELSE "f_down",
                                   "update_column", particle.index)>>]

\* DMetalWavefunctionAmplitude::finish_particle_moved_update_
DMetal_finish_particle_moved_update_(a) ==
    [a EXCEPT
        !.pc = "ready",
        !.m_cmat_d1 = Release(finish_column_update(@)),
        !.m_cmat_d2 = Release(finish_column_update(@)),
        !.m_cmat_f_up = IF a.m_particle_moved_is_up
                        THEN Release(finish_column_update(@)) ELSE @,
        !.m_cmat_f_down = IF a.m_particle_moved_is_up THEN @
                          ELSE Release(finish_column_update(@)),
        !.calls = @ \o <<EngineCall("d1", "finish_column_update", 0),
                         EngineCall("d2", "finish_column_update", 0),
                         EngineCall(IF a.m_particle_moved_is_up THEN "f_up" ELSE "f_down",
                                    "finish_column_update", 0)>>]

\* the assertions of the three finish_column_update calls
DMetal_finish_particle_moved_update_asserts(a) ==
    /\ finish_column_update_asserts(a.m_cmat_d1)
    /\ finish_column_update_asserts(a.m_cmat_d2)
    /\ finish_column_update_asserts(IF a.m_particle_moved_is_up
                                    THEN a.m_cmat_f_up ELSE a.m_cmat_f_down)

\* the lattice of the RVB amplitude: a chain of NSites sites
RVBLattice == NDLattice(<<NSites>>, 1)

\* m_phi[site_to_index(rup - rdown)] after enforce_boundary, as computed in
\* lines 39-42, 54-57 and 116-119
RVB_phi_of_difference(m_phi, up_site, down_site) ==
    LET rup == NDLattice_site_from_index(RVBLattice, up_site - 1)
        rdown == NDLattice_site_from_index(RVBLattice, down_site - 1)
        rup_minus_rdown ==
            NDLattice_asm_subtract_site_vector(RVBLattice, rup, rdown.bs,
                                               NoBoundaryConditions).site
        enforced == NDLattice_enforce_boundary(RVBLattice, rup_minus_rdown,
                                               NoBoundaryConditions).site
    IN  m_phi[NDLattice_site_to_index(RVBLattice, enforced) + 1]

RVB_reinitialize_asserts(r, m_phi) ==
    /\ get_N_species(r) = 2
    /\ 2 * get_N_filled(r, 1) = RVBLattice.m_total_sites
    /\ 2 * get_N_filled(r, 2) = RVBLattice.m_total_sites
    /\ Len(m_phi) = RVBLattice.m_total_sites

\* the constructor and reinitialize; m_new_cmat is default-constructed.
\* old_r, before and last record the positions, the committed engine and
\* psi() before the move in progress, and the last call that returned
RVB_Amplitude(r, phi) ==
    LET M == get_N_filled(r, 1)
    IN  [kind |-> "RVB",
         pc |-> "ready",
         r |-> r,
         m_phi |-> phi,
         m_update_in_progress |-> FALSE,
         m_cmat |-> Release(CeperleyMatrix(
             [i \in 1..M |-> [j \in 1..M |-> RVB_phi_of_difference(phi, r[1][i], r[2][j])]],
             FALSE)),
         m_new_cmat |-> DefaultEngine,
         old_r |-> r,
         before |-> [m_cmat |-> <<>>, psi |-> Zero],
         last |-> "constructor",
         calls |-> <<>>]

\* RVBWavefunction::Amplitude::psi_
RVB_psi_(a) == (IF a.m_update_in_progress THEN a.m_new_cmat ELSE a.m_cmat).det

\* lines 22-28: the move is a swap of an up with a down particle, and r still
\* holds the positions before the move
RVB_perform_move_asserts(a, move) ==
    /\ Len(move) = 2
    /\ move[1].particle.species # move[2].particle.species
    /\ position_of(a.r, move[1].particle) = move[2].destination
    /\ position_of(a.r, move[2].particle) = move[1].destination
    /\ get_N_filled(a.r, 1) = get_N_filled(a.r, 2)

\* RVBWavefunction::Amplitude::perform_move_; move[move[0].particle.species]
\* is the entry of the up particle when species are 0 and 1
RVB_perform_move_(a, move) ==
    LET M == get_N_filled(a.r, 1)
        up == IF move[1].particle.species = 1 THEN move[1] ELSE move[2]
        down == IF move[1].particle.species = 1 THEN move[2] ELSE move[1]
        new_row == [i \in 1..M |->
                       RVB_phi_of_difference(a.m_phi, up.destination, a.r[2][i])]
        new_col == [i \in 1..M |->
                       RVB_phi_of_difference(a.m_phi, a.r[1][i], down.destination)]
        with_row == finish_row_update(update_row(a.m_cmat, up.particle.index, new_row))
    IN  [a EXCEPT
            !.pc = "moved",
            !.m_update_in_progress = TRUE,
            !.m_new_cmat = update_column(with_row, down.particle.index, new_col),
            !.before = [m_cmat |-> a.m_cmat, psi |-> RVB_psi_(a)],
            !.calls = <<EngineCall("new_cmat", "update_row", up.particle.index),
                        EngineCall("new_cmat", "finish_row_update", 0),
                        EngineCall("new_cmat", "update_column", down.particle.index)>>]

\* a finish_move_ that commits without finishing the column update
RVB_finish_move_without_finish(a) ==
    [a EXCEPT !.pc = "ready",
              !.m_cmat = a.m_new_cmat,
              !.m_update_in_progress = FALSE]

\* RVBWavefunction::Amplitude::finish_move_
RVB_finish_move_(a) ==
    [a EXCEPT !.pc = "ready",
              !.m_new_cmat = Release(finish_column_update(@)),
              !.m_cmat = Release(finish_column_update(a.m_new_cmat)),
              !.m_update_in_progress = FALSE,
              !.calls = Append(@, EngineCall("new_cmat", "finish_column_update", 0))]

\* RVBWavefunction::Amplitude::cancel_move_
RVB_cancel_move_(a) ==
    [a EXCEPT !.pc = "ready",
              !.m_update_in_progress = FALSE]

\* the pair functions of the RVB amplitudes
PairFunctions ==
    {<<Rat(1), Rat(2), Rat(0), Rat(1)>>, <<Rat(0), Rat(1), Rat(1), Rat(2)>>}
\* one up and one down particle anywhere on the chain
DMetalPositions == {<<<<u>>, <<d>>>> : u \in Sites, d \in Sites}
\* two up and two down particles, one particle on every site
RVBPositions ==
    {<<<<u1, u2>>, <<d1, d2>>>> : u1 \in Sites, u2 \in Sites, d1 \in Sites, d2 \in Sites}
RVBSpinPositions ==
    {r \in RVBPositions : Cardinality({r[1][1], r[1][2], r[2][1], r[2][2]}) = NSites}

\* the swaps of an up with a down particle, as propose_move builds them
RVBSwaps(r) ==
    {<<SingleParticleMove(p, position_of(r, q)), SingleParticleMove(q, position_of(r, p))>> :
        p \in {Particle(i, sp) : i \in 1..2, sp \in 1..2},
        q \in {Particle(i, sp) : i \in 1..2, sp \in 1..2}}

\* m_particle_moved_is_up is not initialized by the constructor
InitWA ==
    /\ cm = DefaultEngine /\ walk = NoWalk /\ sim = NoSim /\ meas = NoMeas
    /\ cli = NoCli /\ lat = NoLat /\ est = NoEst /\ comb = NoComb
    /\ amp \in {[DMetal_reinitialize(r) EXCEPT !.m_particle_moved_is_up = b] :
                    r \in DMetalPositions, b \in BOOLEAN}
               \cup {RVB_Amplitude(x[1], x[2]) :
                        x \in {y \in RVBSpinPositions \X PairFunctions :
                                  RVB_reinitialize_asserts(y[1], y[2])}}

DMetalMoveParticle ==
    /\ amp.kind = "DMetal" /\ amp.pc = "ready"
    /\ \E particle \in {Particle(1, sp) : sp \in 1..2}, new_site_index \in Sites :
        /\ DMetal_move_particle_asserts(amp, particle, new_site_index)
        /\ amp' = DMetal_move_particle_(amp, particle, new_site_index)
    /\ UNCHANGED <<cm, walk, sim, meas, cli, lat, est, comb>>

DMetalFinishParticleMovedUpdate ==
    /\ amp.kind = "DMetal" /\ amp.pc = "moved"
    /\ amp' = IF DMetal_finish_particle_moved_update_asserts(amp)
              THEN DMetal_finish_particle_moved_update_(amp)
              ELSE [amp EXCEPT !.pc = "aborted"]
    /\ UNCHANGED <<cm, walk, sim, meas, cli, lat, est, comb>>

\* the base class moves the particles once perform_move_ has returned
RVBPerformMove ==
    /\ amp.kind = "RVB" /\ amp.pc = "ready"
    /\ \E move \in RVBSwaps(amp.r) :
        /\ RVB_perform_move_asserts(amp, move)
        /\ amp' = [RVB_perform_move_(amp, move) EXCEPT
                       !.old_r = amp.r, !.r = apply_move(amp.r, move, 1)]
    /\ UNCHANGED <<cm, walk, sim, meas, cli, lat, est, comb>>

RVBFinishMove ==
    /\ amp.kind = "RVB" /\ amp.pc = "moved"
    /\ amp' = IF finish_column_update_asserts(amp.m_new_cmat)
              THEN [RVB_finish_move_(amp) EXCEPT !.last = "finish_move"]
              ELSE [amp EXCEPT !.pc = "aborted"]
    /\ UNCHANGED <<cm, walk, sim, meas, cli, lat, est, comb>>

RVBCancelMove ==
    /\ amp.kind = "RVB" /\ amp.pc = "moved"
    /\ amp' = [RVB_cancel_move_(amp) EXCEPT !.last = "cancel_move", !.r = amp.old_r]
    /\ UNCHANGED <<cm, walk, sim, meas, cli, lat, est, comb>>

NextWA ==
    \/ DMetalMoveParticle
    \/ DMetalFinishParticleMovedUpdate
    \/ RVBPerformMove
    \/ RVBFinishMove
    \/ RVBCancelMove

SpecWA == InitWA /\ [][NextWA]_vars


\* the engines an amplitude holds, by the names used in its calls
engines_of(a) ==
    IF a.kind = "DMetal"
    THEN [d1 |-> a.m_cmat_d1, d2 |-> a.m_cmat_d2,
          f_up |-> a.m_cmat_f_up, f_down |-> a.m_cmat_f_down]
    ELSE [cmat |-> a.m_cmat, new_cmat |-> a.m_new_cmat]

\* the call that closes an update: the finish_* or cancel_* of its kind
closes(update_op, op) ==
    \/ update_op = "update_row" /\ op \in {"finish_row_update", "cancel_row_update"}
    \/ update_op = "update_column" /\ op \in {"finish_column_update", "cancel_column_update"}

\* in the calls made on one engine every update is followed by the one call
\* that closes it, and nothing else is called; open is the update that is
\* outstanding, or "none"
RECURSIVE calls_are_paired(_, _, _)
calls_are_paired(calls, engine, open) ==
    IF calls = <<>> THEN open = "none"
    ELSE IF Head(calls).engine # engine THEN calls_are_paired(Tail(calls), engine, open)
    ELSE IF open = "none"
         THEN /\ Head(calls).op \in {"update_row", "update_column"}
              /\ calls_are_paired(Tail(calls), engine, Head(calls).op)
         ELSE /\ closes(open, Head(calls).op)
              /\ calls_are_paired(Tail(calls), engine, "none")

\* finish or cancel of a move has returned
amplitude_move_has_ended ==
    /\ amp.pc = "ready"
    /\ amp.calls # <<>>

\* the calls of a D-metal move and its finish: column i (up) or i + M (down)
\* of d1 and d2, column i of the f engine of the species, and the three
\* finish_column_update calls on the same engines
dmetal_calls_are_routed ==
    LET M == get_N_filled(amp.r, 1)
        f == IF amp.m_particle_moved_is_up THEN "f_up" ELSE "f_down"
        i == amp.calls[3].index
        column == IF amp.m_particle_moved_is_up THEN i ELSE i + M
    IN  amp.calls = <<EngineCall("d1", "update_column", column),
                      EngineCall("d2", "update_column", column),
                      EngineCall(f, "update_column", i),
                      EngineCall("d1", "finish_column_update", 0),
                      EngineCall("d2", "finish_column_update", 0),
                      EngineCall(f, "finish_column_update", 0)>>

rvb_cancel_has_returned ==
    /\ amp.kind = "RVB" /\ amp.pc = "ready" /\ amp.last = "cancel_move"

rvb_cancel_restores ==
    /\ amp.m_cmat = amp.before.m_cmat
    /\ RVB_psi_(amp) = amp.before.psi
    /\ amp.m_cmat.current_state = "READY_FOR_UPDATE"

\* C32: once finish or cancel of an amplitude's move has returned, every
\* engine update the move issued has been closed on the same engine by exactly
\* one finish_* or cancel_* of its kind and every engine the amplitude holds is
\* READY; the D-metal amplitude has updated and finished column i or i + M of
\* both d engines and column i of the f engine of the moved species only; the
\* RVB amplitude's cancel_move leaves no engine with an outstanding update and
\* the committed engine and psi() at their values before the move.
C32_MoveUpdatesAreClosed ==
    amplitude_move_has_ended =>
        /\ \A name \in DOMAIN engines_of(amp) :
              /\ engines_of(amp)[name].current_state = "READY_FOR_UPDATE"
              /\ calls_are_paired(amp.calls, name, "none")
        /\ amp.kind = "DMetal" => dmetal_calls_are_routed
        /\ rvb_cancel_has_returned => rvb_cancel_restores

\* C32 without the engine of the tentative state after a cancel_move: the
\* updates of a finished move are closed and routed as stated, and a cancelled
\* RVB move leaves the committed engine READY and, with psi(), unchanged
C32_FinishedMoveUpdatesAreClosed ==
    amplitude_move_has_ended =>
        /\ ~rvb_cancel_has_returned =>
              \A name \in DOMAIN engines_of(amp) :
                 /\ engines_of(amp)[name].current_state = "READY_FOR_UPDATE"
                 /\ calls_are_paired(amp.calls, name, "none")
        /\ amp.kind = "DMetal" => dmetal_calls_are_routed
        /\ rvb_cancel_has_returned => rvb_cancel_restores

\* an RVB move of up particle 1 and down particle 1 has been cancelled: the
\* column update of m_new_cmat is still outstanding
C32_CancelLeavesColumnUpdate ==
    /\ rvb_cancel_has_returned
    /\ amp.calls = <<EngineCall("new_cmat", "update_row", 1),
                     EngineCall("new_cmat", "finish_row_update", 0),
                     EngineCall("new_cmat", "update_column", 1)>>
    /\ amp.m_new_cmat.current_state = "COLUMN_UPDATE_IN_PROGRESS"

\* a D-metal move of the down particle has been finished
C32_Witness ==
    /\ amp.kind = "DMetal" /\ amplitude_move_has_ended
    /\ ~amp.m_particle_moved_is_up
    /\ amp.calls[1] = EngineCall("d1", "update_column", 2)
    /\ amp.m_cmat_f_down.current_state = "READY_FOR_UPDATE"


----------------------------------------------------------------------------
(* Further properties of the engine, checked under SpecCM *)

\* C39: inverse_recalculated_for_current_update is false in every READY state
\* of the engine, so the assertion on it at the entry of each update_* holds
\* for every well-formed call made in READY; and whenever it is true at a
\* finish_*, the inverse committed is new_invmat, the inverse of the new
\* matrix when that is non-singular, and the flag is cleared.
C39_RecalculatedFlag ==
    /\ cm.current_state = "READY_FOR_UPDATE" =>
          /\ ~cm.inverse_recalculated_for_current_update
          /\ update_row_permitted(cm) /\ update_column_permitted(cm)
          /\ update_columns_permitted(cm) /\ update_rows_and_columns_permitted(cm)
    /\ (cm.current_state \in InProgressStates
          /\ cm.inverse_recalculated_for_current_update) =>
          \A f \in {finish_pending(cm)} :
             /\ f.invmat = cm.new_invmat
             /\ ~f.inverse_recalculated_for_current_update
             /\ f.current_state = "READY_FOR_UPDATE"
             /\ Rank(cm.mat) = NCols(cm.mat) =>
                   MatMul(cm.mat, f.invmat) = Identity(NRows(cm.mat))

\* an update of a singular matrix has recomputed the inverse of a new matrix
\* of full rank, and its finish_* is due
C39_Witness ==
    /\ cm.current_state \in InProgressStates
    /\ cm.inverse_recalculated_for_current_update
    /\ cm.nullity_lower_bound > 0
    /\ Rank(cm.mat) = NCols(cm.mat)
    /\ finish_pending(cm).invmat = MatInverse(cm.mat)


\* a value no inverse of the engine's matrix takes
ClosedFormMarker == <<<<Zero>>>>
\* the finish_* of e executes its closed-form branch: it commits what its
\* closed-form update has computed
closed_form_branch_is_taken(e) ==
    finish_common(e, ClosedFormMarker).invmat = ClosedFormMarker

\* detrat_inv_m holds the inverse of a ratio matrix of the outstanding update:
\* the storage is empty in READY, so what is there was assigned by the update
detrat_inv_m_is_assigned(e) ==
    /\ e.detrat_inv_m # <<>>
    /\ NRows(e.detrat_inv_m) = replaced_count(e)

\* C36: finish_columns_update and finish_rows_and_columns_update read
\* detrat_inv_m only when the outstanding update assigned it: when the ratio
\* determinant is zero, when the matrix was recorded as singular before the
\* update, or when the inverse was recomputed during the update, the
\* closed-form branch that reads detrat_inv_m is not executed.
C36_RatioInverseIsAssigned ==
    cm.current_state \in {"COLUMNS_UPDATE_IN_PROGRESS", "ROWCOL_UPDATE_IN_PROGRESS"} =>
        /\ closed_form_branch_is_taken(cm) => detrat_inv_m_is_assigned(cm)
        /\ (\/ Big_is_zero(cm.det)
            \/ cm.nullity_lower_bound > 0
            \/ cm.inverse_recalculated_for_current_update)
              => ~closed_form_branch_is_taken(cm)

\* an update of two columns of a non-singular matrix has made the ratio
\* determinant zero: detrat_inv_m was not assigned and finish_columns_update
\* does not take the closed-form branch
C36_Witness ==
    /\ cm.current_state = "COLUMNS_UPDATE_IN_PROGRESS"
    /\ Len(cm.pending_col_indices) = 2
    /\ cm.nullity_lower_bound = 0
    /\ cm.detrat = Zero
    /\ cm.detrat_inv_m = <<>>
    /\ ~closed_form_branch_is_taken(cm)

\* an update of a row and a column that assigned detrat_inv_m, its finish_*
\* taking the closed-form branch
C36_WitnessClosedForm ==
    /\ cm.current_state = "ROWCOL_UPDATE_IN_PROGRESS"
    /\ closed_form_branch_is_taken(cm)
    /\ detrat_inv_m_is_assigned(cm)
    /\ replaced_count(cm) = 2


\* The determinants of the matrices of SpecCM are integers and never fall
\* below a cutoff.  SpecCMTiny constructs the engine from matrices with one
\* entry 1/TinyDenominator, below the safe lower cutoff of 1e-6.
TinyDenominator == 1048576
Tiny == <<1, TinyDenominator>>
TinyMatrices ==
    {m \in [Indices -> [Indices -> {Zero, One, Tiny}]] :
        /\ Cardinality({ij \in Indices \X Indices : m[ij[1]][ij[2]] = Tiny}) <= 1
        /\ \E i, j \in Indices : m[i][j] = Zero}

InitCMTiny ==
    /\ cli = NoCli /\ lat = NoLat /\ est = NoEst
    /\ comb = NoComb /\ amp = NoAmp
    /\ cm \in {Release(CeperleyMatrix(m, c)) : m \in TinyMatrices, c \in BOOLEAN}
    /\ walk = NoWalk
    /\ sim = NoSim
    /\ meas = NoMeas

\* The closed-form updates multiply entries of the inverse, which are of the
\* size of TinyDenominator next to a tiny entry: there the new rows and
\* columns are unit vectors, which keeps every product within the integers of
\* the model checker.  Updates of several rows and columns are made on the
\* matrices of integers.
UnitVectors == {[i \in Indices |-> IF i = k THEN One ELSE Zero] : k \in Indices}
has_integer_entries(m) == \A i, j \in Indices : m[i][j][2] = 1

UpdateRowUnitCall ==
    /\ cm.current_state = "READY_FOR_UPDATE"
    /\ \E r \in Indices, row \in UnitVectors :
        /\ update_row_asserts(cm, r, row)
        /\ cm' = update_row(cm, r, row)
    /\ UNCHANGED <<walk, sim, meas, cli, lat, est, comb, amp>>

UpdateColumnUnitCall ==
    /\ cm.current_state = "READY_FOR_UPDATE"
    /\ \E c \in Indices, col \in UnitVectors :
        /\ update_column_asserts(cm, c, col)
        /\ cm' = update_column(cm, c, col)
    /\ UNCHANGED <<walk, sim, meas, cli, lat, est, comb, amp>>

UpdateColumnsOfIntegersCall ==
    /\ has_integer_entries(cm.mat)
    /\ UpdateColumnsCall

UpdateRowsAndColumnsOfIntegersCall ==
    /\ has_integer_entries(cm.mat)
    /\ UpdateRowsAndColumnsCall

NextCMTiny ==
    \/ UpdateRowUnitCall
    \/ UpdateColumnUnitCall
    \/ UpdateColumnsOfIntegersCall
    \/ UpdateRowsAndColumnsOfIntegersCall
    \/ FinishRowUpdateCall
    \/ FinishColumnUpdateCall
    \/ FinishColumnsUpdateCall
    \/ FinishRowsAndColumnsUpdateCall
    \/ CancelRowUpdateCall
    \/ CancelColumnUpdateCall
    \/ CancelColumnsUpdateCall
    \/ CancelRowsAndColumnsUpdateCall

SpecCMTiny == InitCMTiny /\ [][NextCMTiny]_vars

\* the cases in which the claim has the inverse recomputed from scratch
recomputation_is_due(e) ==
    \/ above_upper_cutoff(e.det)
    \/ below_lower_cutoff(e.det)
    \/ e.be_extra_careful /\ below_safe_lower_cutoff(e.det)
    \/ e.nullity_lower_bound > 0

C33_WitnessSingularBefore ==
    /\ cm.current_state \in InProgressStates
    /\ cm.nullity_lower_bound > 0
    /\ finish_pending(cm).nullity_lower_bound = 0
    /\ finish_pending(cm).invmat = MatInverse(cm.mat)

\* without be_extra_careful a determinant below the safe lower cutoff is
\* committed by the closed-form update
C33_WitnessClosedForm ==
    /\ cm.current_state \in InProgressStates
    /\ ~cm.be_extra_careful
    /\ Big_is_nonzero(cm.det)
    /\ below_safe_lower_cutoff(cm.det)
    /\ closed_form_branch_is_taken(cm)


----------------------------------------------------------------------------
(* Further properties of the SwappedSystem, checked under SpecSS *)

\* the phibeta holds one move, of the particle to the site
phibeta_has_moved(phibeta, particle, site) ==
    /\ phibeta.move_in_progress
    /\ phibeta.r = update_position(phibeta.old_r, particle, site)

\* the update outstanding with delta = 0 has moved the particle of copy own,
\* and with it one phibeta: the partner of the particle in the other phibeta
\* when the particle is inside the subsystem, the particle itself in the
\* phibeta of its copy when it is outside
one_phibeta_follows(sw, own, particle, phialpha, pairing_index) ==
    LET site == position_of(phialpha.r, particle)
        partner_indices == IF own = 1 THEN sw.copy2_subsystem_indices
                           ELSE sw.copy1_subsystem_indices
        other_phibeta == IF own = 1 THEN sw.phibeta2 ELSE sw.phibeta1
        own_phibeta == IF own = 1 THEN sw.phibeta1 ELSE sw.phibeta2
    IN  IF position_is_within(site)
        THEN /\ phibeta_has_moved(other_phibeta,
                    Particle(partner_indices[particle.species][pairing_index],
                             particle.species), site)
             /\ ~own_phibeta.move_in_progress
        ELSE /\ phibeta_has_moved(own_phibeta, particle, site)
             /\ ~other_phibeta.move_in_progress

\* C34: under the preconditions update states for its arguments, every
\* assertion of update holds, those that a phibeta is not dirty already among
\* them, and perform_move is called at most once on each phibeta; with
\* delta = 0 and a particle moved exactly one phibeta is moved: the partner
\* particle in phibeta2 when the particle of copy 1 is inside the subsystem,
\* the particle itself in phibeta1 when it is outside, and symmetrically for
\* copy 2.
C34_OneMovePerPhibeta ==
    \A sw \in {walk.swapped_system} :
       /\ sw.current_state = "READY" =>
             \A particle1, particle2 \in AllParticles \cup {NoParticle} :
             \A site1, site2 \in Sites :
                (/\ particle1 = NoParticle => site1 = 1
                 /\ particle2 = NoParticle => site2 = 1
                 /\ moved_phialpha_asserts(walk.phialpha1, particle1, site1)
                 /\ moved_phialpha_asserts(walk.phialpha2, particle2, site2)
                 /\ update_preconditions(sw, particle1, particle2,
                        moved_phialpha(walk.phialpha1, particle1, site1),
                        moved_phialpha(walk.phialpha2, particle2, site2)))
                   => update_asserts(sw, particle1, particle2,
                          moved_phialpha(walk.phialpha1, particle1, site1),
                          moved_phialpha(walk.phialpha2, particle2, site2))
       /\ sw.current_state = "UPDATE_IN_PROGRESS" =>
             /\ sw.phibeta1_dirty = sw.phibeta1.move_in_progress
             /\ sw.phibeta2_dirty = sw.phibeta2.move_in_progress
             /\ sw.phibeta1.move_in_progress =>
                   \E p \in AllParticles, site \in Sites :
                       phibeta_has_moved(sw.phibeta1, p, site)
             /\ sw.phibeta2.move_in_progress =>
                   \E p \in AllParticles, site \in Sites :
                       phibeta_has_moved(sw.phibeta2, p, site)
             /\ (sw.recent_delta = 0 /\ sw.recent_particle1 # NoParticle) =>
                   one_phibeta_follows(sw, 1, sw.recent_particle1, walk.phialpha1,
                                       walk.pairing_index1)
             /\ (sw.recent_delta = 0 /\ sw.recent_particle2 # NoParticle) =>
                   one_phibeta_follows(sw, 2, sw.recent_particle2, walk.phialpha2,
                                       walk.pairing_index2)

\* the particle of copy 1 has moved within the subsystem: its partner has
\* been moved in phibeta2 and phibeta1 is as it was
C34_Witness ==
    /\ walk.swapped_system.current_state = "UPDATE_IN_PROGRESS"
    /\ walk.swapped_system.recent_delta = 0
    /\ walk.swapped_system.recent_particle1 # NoParticle
    /\ walk.pairing_index1 >= 1
    /\ position_is_within(position_of(walk.phialpha1.r, walk.swapped_system.recent_particle1))
    /\ walk.swapped_system.phibeta2_dirty
    /\ ~walk.swapped_system.phibeta1_dirty
    /\ walk.swapped_system.phibeta2.r # walk.swapped_system.phibeta2.old_r

\* the particle of copy 2 has moved outside the subsystem
C34_WitnessOutside ==
    /\ walk.swapped_system.current_state = "UPDATE_IN_PROGRESS"
    /\ walk.swapped_system.recent_delta = 0
    /\ walk.swapped_system.recent_particle2 # NoParticle
    /\ walk.pairing_index2 = -1
    /\ walk.swapped_system.phibeta2_dirty
    /\ ~walk.swapped_system.phibeta1_dirty


\* what C35 states of an update of the READY SwappedSystem sw with delta = -1
\* in which the leaving particles sit in different slots of the pairing lists
repairing_is_right(sw, particle1, particle2, phialpha1, phialpha2, old_r1, old_r2) ==
    LET r1 == Amplitude_get_positions(phialpha1)
        r2 == Amplitude_get_positions(phialpha2)
        species == particle1.species
        p1 == update_pairing_index(sw.copy1_subsystem_indices, particle1)
        p2 == update_pairing_index(sw.copy2_subsystem_indices, particle2)
        max_slot == IF p1 > p2 THEN p1 ELSE p2
        min_slot == IF p1 > p2 THEN p2 ELSE p1
        c1_s == sw.copy1_subsystem_indices[species]
        c2_s == sw.copy2_subsystem_indices[species]
        repaired == update_repaired(copy_on_write2(copy_on_write1(sw)), species, p1, p2)
        after == update(sw, particle1, particle2, phialpha1, phialpha2)
    IN  \* both leaving particles at the larger slot, the staying partners at
        \* the smaller, and the phibetas relabelled to match
        /\ repaired.copy1_subsystem_indices[species][max_slot] = particle1.index
        /\ repaired.copy2_subsystem_indices[species][max_slot] = particle2.index
        /\ repaired.copy1_subsystem_indices[species][min_slot] = c1_s[p2]
        /\ repaired.copy2_subsystem_indices[species][min_slot] = c2_s[p1]
        /\ phibetas_are_swap_of(repaired, old_r1, old_r2)
        \* one move in each phibeta, of the leaving particle of its copy
        /\ after.phibeta1.r = update_position(repaired.phibeta1.r, particle1,
                                              position_of(r1, particle1))
        /\ after.phibeta2.r = update_position(repaired.phibeta2.r, particle2,
                                              position_of(r2, particle2))
        /\ after.phibeta1.move_in_progress /\ after.phibeta2.move_in_progress
        /\ after.phibeta1.old_r = repaired.phibeta1.r
        /\ after.phibeta2.old_r = repaired.phibeta2.r
        \* one slot removed
        /\ Len(after.copy1_subsystem_indices[species]) = Len(c1_s) - 1
        /\ Len(after.copy2_subsystem_indices[species]) = Len(c2_s) - 1
        /\ particle1.index \notin SeqToSet(after.copy1_subsystem_indices[species])
        /\ particle2.index \notin SeqToSet(after.copy2_subsystem_indices[species])
        /\ lists_match_positions(after, r1, r2)
        /\ phibetas_are_swap_of(after, r1, r2)

\* C35: in an update with delta = -1 whose two leaving particles sit at
\* different pairing slots p1 # p2, the re-pairing puts both leaving particles
\* at slot max(p1, p2) and the two staying partners at slot min(p1, p2), with
\* the phibetas relabelled to match; then one move is applied in each phibeta
\* and one slot is removed: both lists shrink by one, hold neither leaving
\* particle, and every remaining pair is consistent with the positions of the
\* phibetas.
C35_Repairing ==
    walk.swapped_system.current_state = "READY" =>
        \A particle1, particle2 \in AllParticles :
        \A site1, site2 \in Sites :
           \A phialpha1 \in {moved_phialpha(walk.phialpha1, particle1, site1)} :
           \A phialpha2 \in {moved_phialpha(walk.phialpha2, particle2, site2)} :
              (/\ moved_phialpha_asserts(walk.phialpha1, particle1, site1)
               /\ moved_phialpha_asserts(walk.phialpha2, particle2, site2)
               /\ update_asserts(walk.swapped_system, particle1, particle2,
                                 phialpha1, phialpha2)
               /\ update_delta(walk.swapped_system.copy1_subsystem_indices,
                               phialpha1.r, particle1) = -1
               /\ update_pairing_index(walk.swapped_system.copy1_subsystem_indices, particle1)
                    # update_pairing_index(walk.swapped_system.copy2_subsystem_indices, particle2))
                 => repairing_is_right(walk.swapped_system, particle1, particle2,
                                       phialpha1, phialpha2,
                                       walk.phialpha1.r, walk.phialpha2.r)

\* an update with delta = -1 is outstanding in which the particle leaving
\* copy 1 sat in slot 1 and the one leaving copy 2 in slot 2: the one pair
\* left is that of the partners that stay
C35_Witness ==
    /\ walk.swapped_system.current_state = "UPDATE_IN_PROGRESS"
    /\ walk.swapped_system.recent_delta = -1
    /\ walk.pairing_index1 = 1 /\ walk.pairing_index2 = 2
    /\ walk.swapped_system.phibeta1_dirty /\ walk.swapped_system.phibeta2_dirty
    /\ Len(walk.swapped_system.copy1_subsystem_indices[
               walk.swapped_system.recent_particle1.species]) = 1
    /\ walk.swapped_system.copy1_subsystem_indices[
           walk.swapped_system.recent_particle1.species][1]
         # walk.swapped_system.recent_particle1.index
    /\ walk.swapped_system.copy2_subsystem_indices[
           walk.swapped_system.recent_particle2.species][1]
         # walk.swapped_system.recent_particle2.index

====
